---- MODULE Spec2Model ----
(***************************************************************************)
(* Luma CSV -> Intercom event publisher.                                   *)
(*                                                                         *)
(* The upload route (POST) validates one request, derives the attendees    *)
(* and the Intercom events, opens a server-sent-event stream and drives    *)
(* publishEventsWithProgress over the events; publishEvent resolves the    *)
(* contact (ensureUserExists) and submits the event.  Every await of the   *)
(* code is a position (pc) of the batch; the answers of the Intercom API   *)
(* are the nondeterministic inputs of the response actions.                *)
(*                                                                         *)
(* Strings are atoms, except e-mail addresses, which are sequences of      *)
(* tokens so that indexOf("@"), includes("@") and substring act on them.   *)
(* The JavaScript string functions are tabulated on the strings used.      *)
(* An optional value (T | null) is a sequence of length 0 or 1.            *)
(***************************************************************************)
EXTENDS Integers, Sequences, FiniteSets, TLC

VARIABLES
    env,        \* process.env: the two access tokens
    req,        \* per batch: the form data of the request
    pc,         \* per batch: position of the handler
    response,   \* per batch: the HTTP response returned (status, body)
    attendees,  \* per batch: POST's attendees array
    errors,     \* per batch: POST's errors array (row warnings)
    events,     \* per batch: POST's events array
    idx,        \* per batch: publishEventsWithProgress's loop variable i
    results,    \* per batch: the stream's results accumulator
    successful, \* per batch: the stream's successful counter
    failed,     \* per batch: the stream's failed counter
    msgs,       \* per batch: messages enqueued on the stream
    closed,     \* per batch: controller.close() was called
    inflight,   \* per batch: remote calls issued and not yet answered
    calls,      \* per batch: remote calls of the running publishEvent, with answers
    exc,        \* per batch: the exception being propagated
    outcome,    \* per batch: the result publishEvent returned, not yet reported
    ui,         \* the React state of the page (Home)
    handler     \* per upload: the running handleProcess or handleRunInProduction

vars == <<env, req, pc, response, attendees, errors, events, idx, results,
          successful, failed, msgs, closed, inflight, calls, exc, outcome, ui, handler>>

(***************************************************************************)
(* Bounds and universes                                                    *)
(***************************************************************************)
MaxRows == 2

Batches == {"A", "B"}

Undefined == "<undefined>"

Null == "<null>"

Falsy(v) == v \in {Undefined, ""}

TokenNames == {"INTERCOM_ACCESS_TOKEN", "INTERCOM_ACCESS_TOKEN_TEST"}

(***************************************************************************)
(* JavaScript string functions, tabulated on the strings of the model      *)
(***************************************************************************)
Trim(s) ==
    CASE s = " Ann "      -> "Ann"
      [] s = " "          -> ""
      [] s = " YES "      -> "YES"
      [] s = " Invited "  -> "Invited"
      [] s = " Joined "   -> "Joined"
      [] OTHER            -> s

ToLowerCase(s) ==
    CASE s = "YES"                     -> "yes"
      [] s = "Invited"                 -> "invited"
      [] s = "Joined"                  -> "joined"
      [] s = "TRUE"                    -> "true"
      [] s = "Y"                       -> "y"
      [] s = "Approved"                -> "approved"
      [] s = "Pending"                 -> "pending"
      [] s = "Registered, Checked In"  -> "registered, checked in"
      [] s = "Registered"              -> "registered"
      [] s = "Present"                 -> "present"
      [] s = "Registration open"       -> "registration open"
      [] OTHER                         -> s

\* s.includes(sub), for the needles the code looks for in a lower-cased status
Includes(s, sub) ==
    sub \in (CASE s = "registered, checked in" -> {"registered", "checked"}
               [] s = "registered"             -> {"registered"}
               [] s = "attended"               -> {"attended"}
               [] s = "present"                -> {"present"}
               [] s = "registration open"      -> {"registration"}
               [] OTHER                        -> {})

EndsWithCsv(name) == name \in {"luma.csv"}

\* new Date(s).getTime() is not NaN
IsValidDate(s) == s \in {"2024-05-01", "2024-05-02 18:00"}

\* Math.floor(new Date(s).getTime() / 1000)
UnixSeconds(s) ==
    CASE s = "2024-05-01"       -> 1714521600
      [] s = "2024-05-02 18:00" -> 1714672800
      [] OTHER                  -> 0

\* Math.floor(Date.now() / 1000)
NowSeconds == 1767225600

\* E-mail addresses: sequences of tokens
RECURSIVE TrimTokens(_)
TrimTokens(e) ==
    IF e = <<>> THEN e
    ELSE IF Head(e) = " " THEN TrimTokens(Tail(e))
    ELSE IF e[Len(e)] = " " THEN TrimTokens(SubSeq(e, 1, Len(e) - 1))
    ELSE e

\* email.indexOf("@"), 1-based; 0 when absent
IndexOfAt(e) ==
    IF \E k \in 1..Len(e) : e[k] = "@"
    THEN CHOOSE k \in 1..Len(e) : e[k] = "@" /\ \A j \in 1..(k - 1) : e[j] # "@"
    ELSE 0

\* `${d} ${t}`
SpaceJoin(d, t) ==
    CASE d = "2024-06-01" /\ t = "18:00" -> "2024-06-01 18:00"
      [] OTHER                           -> "<other>"

OrUndefined(v) == IF Falsy(v) THEN Undefined ELSE v

(***************************************************************************)
(* The upload route: normalisation, classification, derivation             *)
(***************************************************************************)
\* row[col] || "" for a text column, and for the e-mail column
Cell(row, col) == IF col \in DOMAIN row THEN row[col] ELSE ""

EmailCell(row, col) == IF col \in DOMAIN row THEN row[col] ELSE <<>>

EmailIsValid(email) == email # <<>> /\ \E k \in 1..Len(email) : email[k] = "@"

\* the accepted values without "joined"
JoinedValuesNoJoined == {"true", "1", "yes", "y"}

JoinedValues == {"true", "1", "yes", "y", "joined"}

MappedText(row, col) == IF ~Falsy(col) THEN Trim(Cell(row, col)) ELSE ""

\* parseAttendee without the e-mail check
parseAttendeeAnyEmail(row, mapping) ==
    << [ email            |-> IF ~Falsy(mapping.email)
                              THEN TrimTokens(EmailCell(row, mapping.email))
                              ELSE <<>>,
         name             |-> MappedText(row, mapping.name),
         phone_number     |-> MappedText(row, mapping.phone_number),
         registrationDate |-> MappedText(row, mapping.registrationDate),
         attendanceDate   |-> MappedText(row, mapping.attendanceDate),
         ticketType       |-> MappedText(row, mapping.ticketType),
         status           |-> MappedText(row, mapping.status),
         hasJoinedEvent   |-> IF ~Falsy(mapping.hasJoinedEvent)
                              THEN <<ToLowerCase(Trim(Cell(row, mapping.hasJoinedEvent)))
                                        \in JoinedValues>>
                              ELSE <<>> ] >>

\* parseAttendee: <<>> for null, <<attendee>> otherwise
parseAttendee(row, mapping) ==
    LET email == IF ~Falsy(mapping.email)
                 THEN TrimTokens(EmailCell(row, mapping.email))
                 ELSE <<>>
        hasJoinedEvent ==
            IF ~Falsy(mapping.hasJoinedEvent)
            THEN <<ToLowerCase(Trim(Cell(row, mapping.hasJoinedEvent))) \in JoinedValues>>
            ELSE <<>>
    IN  IF ~EmailIsValid(email)
        THEN <<>>
        ELSE << [ email            |-> email,
                  name             |-> MappedText(row, mapping.name),
                  phone_number     |-> MappedText(row, mapping.phone_number),
                  registrationDate |-> MappedText(row, mapping.registrationDate),
                  attendanceDate   |-> MappedText(row, mapping.attendanceDate),
                  ticketType       |-> MappedText(row, mapping.ticketType),
                  status           |-> MappedText(row, mapping.status),
                  hasJoinedEvent   |-> hasJoinedEvent ] >>

\* hasRegistration matching the status text as written
hasRegistrationCaseSensitive(a) ==
    \/ ~Falsy(a.registrationDate)
    \/ Includes(a.status, "registered")
    \/ Includes(a.status, "registration")

hasRegistration(a) ==
    \/ ~Falsy(a.registrationDate)
    \/ Includes(ToLowerCase(a.status), "registered")
    \/ Includes(ToLowerCase(a.status), "registration")

hasAttendance(a) ==
    \/ a.hasJoinedEvent = <<TRUE>>
    \/ ~Falsy(a.attendanceDate)
    \/ Includes(ToLowerCase(a.status), "attended")
    \/ Includes(ToLowerCase(a.status), "checked")
    \/ Includes(ToLowerCase(a.status), "present")

\* processAttendees: the attendee with its two flags
processAttendees(as) ==
    [k \in 1..Len(as) |->
        [ attendee        |-> as[k],
          hasRegistration |-> hasRegistration(as[k]),
          hasAttendance   |-> hasAttendance(as[k]) ]]

\* Timestamp without the isNaN test
TimestampUnchecked(dateText) ==
    IF ~Falsy(dateText) THEN UnixSeconds(dateText) ELSE NowSeconds

Timestamp(dateText) ==
    IF ~Falsy(dateText) /\ IsValidDate(dateText) THEN UnixSeconds(dateText) ELSE NowSeconds

\* settingsEventDate falling back to the time when the date is missing
settingsEventDateOrTime(settings) ==
    IF ~Falsy(settings.eventDate) /\ ~Falsy(settings.eventTime)
    THEN SpaceJoin(settings.eventDate, settings.eventTime)
    ELSE IF ~Falsy(settings.eventDate) THEN settings.eventDate
    ELSE OrUndefined(settings.eventTime)

settingsEventDate(settings) ==
    IF ~Falsy(settings.eventDate) /\ ~Falsy(settings.eventTime)
    THEN SpaceJoin(settings.eventDate, settings.eventTime)
    ELSE OrUndefined(settings.eventDate)

EventFor(a, settings, eventName, dateText) ==
    [ event_name   |-> eventName,
      created_at   |-> Timestamp(dateText),
      email        |-> a.email,
      name         |-> a.name,
      phone_number |-> a.phone_number,
      metadata     |-> [ event_name  |-> OrUndefined(settings.eventName),
                         event_date  |-> settingsEventDate(settings),
                         ticket_type |-> OrUndefined(a.ticketType),
                         presenter   |-> OrUndefined(settings.presenter) ] ]

\* EventsOf with the attendance event pushed first
EventsOfAttendanceFirst(p, settings) ==
    (IF p.hasAttendance
     THEN <<EventFor(p.attendee, settings, "attended-event", p.attendee.attendanceDate)>>
     ELSE <<>>)
    \o
    (IF p.hasRegistration
     THEN <<EventFor(p.attendee, settings, "registered-for-event", p.attendee.registrationDate)>>
     ELSE <<>>)

EventsOf(p, settings) ==
    (IF p.hasRegistration
     THEN <<EventFor(p.attendee, settings, "registered-for-event", p.attendee.registrationDate)>>
     ELSE <<>>)
    \o
    (IF p.hasAttendance
     THEN <<EventFor(p.attendee, settings, "attended-event", p.attendee.attendanceDate)>>
     ELSE <<>>)

RECURSIVE createIntercomEvents(_, _)
createIntercomEvents(ps, settings) ==
    IF ps = <<>> THEN <<>>
    ELSE EventsOf(Head(ps), settings) \o createIntercomEvents(Tail(ps), settings)

replaceEmailDomain(email) ==
    IF IndexOfAt(email) = 0 THEN email
    ELSE SubSeq(email, 1, IndexOfAt(email)) \o <<"example.com">>

\* the approval_status filter comparing the cell as written
IsInvitedAsWritten(row, mapping) ==
    /\ ~Falsy(mapping.approval_status)
    /\ Cell(row, mapping.approval_status) = "invited"

IsInvited(row, mapping) ==
    /\ ~Falsy(mapping.approval_status)
    /\ ToLowerCase(Trim(Cell(row, mapping.approval_status))) = "invited"

\* the warning numbered by the position among the data rows alone
RowWarningDataRow(i) == [row |-> i + 1, text |-> "Missing or invalid email address"]

\* `Row ${i + 2}: Missing or invalid email address`
RowWarning(i) == [row |-> i + 2, text |-> "Missing or invalid email address"]

\* The extraction loop of POST over parseResult.data, from 0-based row i on
RECURSIVE ExtractFrom(_, _, _, _)
ExtractFrom(data, i, mapping, testMode) ==
    IF i >= Len(data) THEN [attendees |-> <<>>, errors |-> <<>>]
    ELSE LET rest     == ExtractFrom(data, i + 1, mapping, testMode)
             row      == data[i + 1]
             attendee == parseAttendee(row, mapping)
         IN  IF IsInvited(row, mapping) THEN rest
             ELSE IF attendee = <<>>
             THEN [rest EXCEPT !.errors = <<RowWarning(i)>> \o @]
             ELSE [rest EXCEPT !.attendees =
                      << IF testMode
                         THEN [attendee[1] EXCEPT !.email = replaceEmailDomain(@)]
                         ELSE attendee[1] >> \o @]

ExtractAttendees(r) == ExtractFrom(r.data, 0, r.mapping, r.testMode)

MappedColumns(mapping) ==
    { c \in { mapping.email, mapping.name, mapping.phone_number,
              mapping.registrationDate, mapping.attendanceDate, mapping.ticketType,
              mapping.status, mapping.hasJoinedEvent, mapping.approval_status } :
        ~Falsy(c) }

missingColumns(r) == { c \in MappedColumns(r.mapping) : c \notin r.csvColumns }

DerivedEvents(r) ==
    createIntercomEvents(processAttendees(ExtractAttendees(r).attendees), r.settings)

\* RejectReason without the events.length === 0 return
RejectReasonEventsUnchecked(r) ==
    IF r.file = Undefined THEN "No file uploaded"
    ELSE IF ~EndsWithCsv(r.file) THEN "File must be a CSV file"
    ELSE IF r.mapping.json = "absent" THEN "Column mapping is required"
    ELSE IF r.mapping.json = "invalid" THEN "Invalid column mapping format"
    ELSE IF Falsy(r.mapping.email) THEN "Email column mapping is required"
    ELSE IF missingColumns(r) # {} THEN "Mapped columns not found in CSV"
    ELSE IF ExtractAttendees(r).attendees = <<>> THEN "No valid attendees found in CSV"
    ELSE ""

\* The early returns of POST, in the order of the code: "" when the request passes
RejectReason(r) ==
    IF r.file = Undefined THEN "No file uploaded"
    ELSE IF ~EndsWithCsv(r.file) THEN "File must be a CSV file"
    ELSE IF r.mapping.json = "absent" THEN "Column mapping is required"
    ELSE IF r.mapping.json = "invalid" THEN "Invalid column mapping format"
    ELSE IF Falsy(r.mapping.email) THEN "Email column mapping is required"
    ELSE IF missingColumns(r) # {} THEN "Mapped columns not found in CSV"
    ELSE IF ExtractAttendees(r).attendees = <<>> THEN "No valid attendees found in CSV"
    ELSE IF DerivedEvents(r) = <<>> THEN "No events to publish"
    ELSE ""

(***************************************************************************)
(* The Intercom client                                                     *)
(***************************************************************************)
TokenName(testMode) ==
    IF testMode THEN "INTERCOM_ACCESS_TOKEN_TEST" ELSE "INTERCOM_ACCESS_TOKEN"

NoError == [class |-> "none", statusCode |-> 0, message |-> ""]

IntercomError(status) ==
    [class |-> "IntercomError", statusCode |-> status, message |-> "Status code error"]

PlainError(message) == [class |-> "Error", statusCode |-> 0, message |-> message]

\* getIntercomClient: the error it throws (NoError when it returns a client)
getIntercomClientError(e, testMode) ==
    IF Falsy(e[TokenName(testMode)])
    THEN PlainError(TokenName(testMode))
    ELSE NoError

\* getIntercomClient that reads the production token in either mode
getIntercomClientProduction(e, testMode) == [token |-> e["INTERCOM_ACCESS_TOKEN"]]

\* one client kept for the whole process, made for the mode of upload A
getIntercomClientShared(e, testMode) == [token |-> e[TokenName(req["A"].testMode)]]

\* getIntercomClient: the client it returns
getIntercomClient(e, testMode) == [token |-> e[TokenName(testMode)]]

NonBlank(v) == ~Falsy(v) /\ ~Falsy(Trim(v))

\* userData of ensureUserExists
userData(email, name, phone) ==
    [f \in {"email"} \cup (IF NonBlank(name) THEN {"name"} ELSE {})
                     \cup (IF NonBlank(phone) THEN {"phone"} ELSE {}) |->
        CASE f = "email" -> email
          [] f = "name"  -> Trim(name)
          [] f = "phone" -> Trim(phone)]

\* updateData of ensureUserExists
updateData(contact, name, phone) ==
    [f \in {"contact_id"} \cup (IF NonBlank(phone) THEN {"phone"} ELSE {})
                          \cup (IF NonBlank(name) THEN {"name"} ELSE {}) |->
        CASE f = "contact_id" -> contact.id
          [] f = "phone"      -> Trim(phone)
          [] f = "name"       -> Trim(name)]

searchQuery(email) == [field |-> "email", operator |-> "=", value |-> email]

MetadataKeys == {"event_name", "event_date", "ticket_type", "presenter"}

\* the metadata filter that drops only the undefined values
filteredMetadataUndefinedOnly(event) ==
    [k \in {m \in MetadataKeys : event.metadata[m] # Undefined} |-> event.metadata[k]]

\* the metadata filter of publishEvent
filteredMetadata(event) ==
    [k \in {m \in MetadataKeys : event.metadata[m] \notin {Undefined, Null, ""}} |->
        event.metadata[k]]

\* eventPayload of publishEvent
eventPayload(event) ==
    LET base == {"event_name", "created_at", "email"}
        meta == filteredMetadata(event)
    IN  [f \in base \cup (IF DOMAIN meta # {} THEN {"metadata"} ELSE {}) |->
            CASE f = "event_name" -> event.event_name
              [] f = "created_at" -> event.created_at
              [] f = "email"      -> event.email
              [] f = "metadata"   -> meta]

eventType(event) ==
    IF event.event_name = "registered-for-event"
    THEN "registered-for-event"
    ELSE "attended-event"

successResult(event) ==
    [success |-> TRUE, email |-> event.email, eventType |-> eventType(event)]

\* errorMessage of publishEvent's catch
errorMessage(error) ==
    IF error.class = "IntercomError"
    THEN <<"Intercom API error", error.statusCode, error.message>>
    ELSE IF error.class = "Error"
    THEN <<error.message>>
    ELSE <<"Unknown error">>

failureResult(event, error) ==
    [success |-> FALSE, email |-> event.email, eventType |-> eventType(event),
     error |-> errorMessage(error)]

Call(op, client, args, ev) == [op |-> op, client |-> client, args |-> args, ev |-> ev]

\* Answers of the remote API
Pending == [status |-> "pending", error |-> NoError, data |-> <<>>]

Ok(data) == [status |-> "ok", error |-> NoError, data |-> data]

Failed(error) == [status |-> "failed", error |-> error, data |-> <<>>]

CreateAnswers ==
    { Ok(<<>>), Failed(IntercomError(409)), Failed(IntercomError(422)),
      Failed(IntercomError(500)), Failed(PlainError("fetch failed")) }

SearchAnswers ==
    { Ok(<<>>), Ok(<<[id |-> "c1"], [id |-> "c2"]>>), Failed(IntercomError(500)) }

UpdateAnswers == { Ok(<<>>), Failed(IntercomError(404)) }

EventAnswers == { Ok(<<>>), Failed(IntercomError(500)), Failed(PlainError("fetch failed")) }

IsConflict(answer) ==
    /\ answer.status = "failed"
    /\ answer.error.class = "IntercomError"
    /\ answer.error.statusCode \in {422, 409}

(***************************************************************************)
(* Requests                                                                *)
(***************************************************************************)
Columns ==
    {"Email", "Name", "Phone", "RegisteredAt", "CheckedInAt", "Ticket", "Status",
     "Joined", "Approval"}

RowAnn ==
    [ Email |-> <<"ann", "@", "x.com">>, Name |-> " Ann ", Phone |-> "",
      RegisteredAt |-> "2024-05-01", CheckedInAt |-> "", Ticket |-> "VIP",
      Status |-> "", Joined |-> "no", Approval |-> "Approved" ]

RowBob ==
    [ Email |-> <<"bob", "@", "y", "@", "org">>, Name |-> "", Phone |-> " ",
      RegisteredAt |-> "", CheckedInAt |-> "", Ticket |-> "",
      Status |-> "", Joined |-> " YES ", Approval |-> "" ]

RowCy ==
    [ Email |-> <<" ", "cy", "@", "z.io">>, Name |-> "", Phone |-> "555",
      RegisteredAt |-> "soon", CheckedInAt |-> "2024-05-02 18:00", Ticket |-> "",
      Status |-> "Registered, Checked In", Joined |-> "", Approval |-> "" ]

RowDee ==
    [ Email |-> <<"dee", "@", "x.com">>, Name |-> "Dee", Phone |-> "",
      RegisteredAt |-> "", CheckedInAt |-> "", Ticket |-> "",
      Status |-> "Pending", Joined |-> "", Approval |-> "" ]

RowEve ==
    [ Email |-> <<"eve">>, Name |-> "Eve", Phone |-> "",
      RegisteredAt |-> "2024-05-01", CheckedInAt |-> "", Ticket |-> "",
      Status |-> "registered", Joined |-> "yes", Approval |-> "" ]

RowFay ==
    [ Email |-> <<>>, Name |-> "Fay", Phone |-> "",
      RegisteredAt |-> "2024-05-01", CheckedInAt |-> "", Ticket |-> "",
      Status |-> "", Joined |-> "", Approval |-> " Invited " ]

Rows == {RowAnn, RowBob, RowCy, RowDee, RowEve, RowFay}

\* Rows whose only signal is the status text
RowGus ==
    [ Email |-> <<"gus", "@", "x.com">>, Name |-> "Gus", Phone |-> "",
      RegisteredAt |-> "", CheckedInAt |-> "", Ticket |-> "",
      Status |-> "Registered", Joined |-> "", Approval |-> "" ]

RowHal ==
    [ Email |-> <<"hal", "@", "x.com">>, Name |-> "", Phone |-> "",
      RegisteredAt |-> "", CheckedInAt |-> "", Ticket |-> "VIP",
      Status |-> "Present", Joined |-> "no", Approval |-> "" ]

RowIda ==
    [ Email |-> <<"ida", "@", "y.org">>, Name |-> "", Phone |-> "",
      RegisteredAt |-> "", CheckedInAt |-> "", Ticket |-> "",
      Status |-> "Registration open", Joined |-> "", Approval |-> "" ]

DeriveRows == Rows \cup {RowGus, RowHal, RowIda}

MapFull ==
    [ json |-> "ok", email |-> "Email", name |-> "Name", phone_number |-> "Phone",
      registrationDate |-> "RegisteredAt", attendanceDate |-> "CheckedInAt",
      ticketType |-> "Ticket", status |-> "Status", hasJoinedEvent |-> "Joined",
      approval_status |-> "Approval" ]

MapEmailOnly ==
    [ MapFull EXCEPT !.name = Undefined, !.phone_number = Undefined,
                     !.registrationDate = Undefined, !.attendanceDate = Undefined,
                     !.ticketType = "", !.status = "", !.hasJoinedEvent = Undefined,
                     !.approval_status = Undefined ]

MapNoEmail == [ MapFull EXCEPT !.email = "" ]

MapBogus == [ MapEmailOnly EXCEPT !.name = "Full Name" ]

MapAbsent == [ MapNoEmail EXCEPT !.json = "absent" ]

MapInvalid == [ MapNoEmail EXCEPT !.json = "invalid" ]

Mappings == {MapFull, MapEmailOnly, MapNoEmail, MapBogus, MapAbsent, MapInvalid}

NoSettings ==
    [ eventName |-> Undefined, eventDate |-> Undefined, eventTime |-> Undefined,
      presenter |-> Undefined ]

LaunchSettings ==
    [ eventName |-> "Launch", eventDate |-> "2024-06-01", eventTime |-> "18:00",
      presenter |-> "" ]

Settings == {NoSettings, LaunchSettings}

\* Event settings with each field absent, empty or set
AllSettings ==
    [ eventName : {Undefined, "Launch"}, eventDate : {Undefined, "", "2024-06-01"},
      eventTime : {Undefined, "18:00"}, presenter : {"", "Pat"} ]

Files == {Undefined, "notes.txt", "luma.csv"}

SeqsUpTo(S, n) == UNION { [1..k -> S] : k \in 0..n }

Requests ==
    [ file : Files, mapping : Mappings, csvColumns : {Columns},
      data : SeqsUpTo(Rows, MaxRows), settings : Settings, testMode : BOOLEAN ]

NoRequest ==
    [ file |-> Undefined, mapping |-> MapAbsent, csvColumns |-> {}, data |-> <<>>,
      settings |-> NoSettings, testMode |-> FALSE ]

Secret(n) == IF n = "INTERCOM_ACCESS_TOKEN_TEST" THEN "tok_test" ELSE "tok_live"

\* process.env: both access tokens configured, or neither
Envs ==
    { [n \in TokenNames |-> IF n \in S THEN Secret(n) ELSE Undefined] :
        S \in {TokenNames, {}} }

\* process.env: each access token configured or not
AllEnvs ==
    { [n \in TokenNames |-> IF n \in S THEN Secret(n) ELSE Undefined] :
        S \in SUBSET TokenNames }

(***************************************************************************)
(* Initial states                                                          *)
(***************************************************************************)
\* The page as first rendered: useState initial values
UiInit ==
    [ currentStep |-> "upload", file |-> <<>>, preview |-> FALSE,
      mapping |-> [ json |-> "ok", email |-> "", name |-> Undefined,
                    phone_number |-> Undefined, registrationDate |-> Undefined,
                    attendanceDate |-> Undefined, ticketType |-> Undefined,
                    status |-> Undefined, hasJoinedEvent |-> Undefined,
                    approval_status |-> Undefined ],
      eventSettings |-> NoSettings, testMode |-> FALSE, uploading |-> FALSE,
      results |-> <<>>, error |-> <<>>, wasTestMode |-> FALSE,
      streamingResults |-> <<>>,
      streamingStats |-> [ successful |-> 0, failed |-> 0, total |-> 0 ],
      testModeAvailable |-> FALSE, loadingPreview |-> FALSE,
      configRequest |-> "pending" ]

\* No handler runs for the upload
NoHandler == [ pc |-> "idle", name |-> "", testMode |-> FALSE, read |-> 0 ]

\* No request has arrived
Idle ==
    /\ ui = UiInit
    /\ handler = [b \in Batches |-> NoHandler]
    /\ req = [b \in Batches |-> NoRequest]
    /\ pc = [b \in Batches |-> "off"]
    /\ response = [b \in Batches |-> [status |-> 0]]
    /\ attendees = [b \in Batches |-> <<>>]
    /\ errors = [b \in Batches |-> <<>>]
    /\ events = [b \in Batches |-> <<>>]
    /\ idx = [b \in Batches |-> 0]
    /\ results = [b \in Batches |-> <<>>]
    /\ successful = [b \in Batches |-> 0]
    /\ failed = [b \in Batches |-> 0]
    /\ msgs = [b \in Batches |-> <<>>]
    /\ closed = [b \in Batches |-> FALSE]
    /\ inflight = [b \in Batches |-> {}]
    /\ calls = [b \in Batches |-> <<>>]
    /\ exc = [b \in Batches |-> NoError]
    /\ outcome = [b \in Batches |-> <<>>]

\* The server is up with its environment
Init == env \in Envs /\ Idle

InitAnyEnv == env \in AllEnvs /\ Idle

(***************************************************************************)
(* POST: validation, derivation, opening of the stream                     *)
(***************************************************************************)
errorResponse(r, reason) ==
    IF reason = "No events to publish"
    THEN [ status |-> 400,
           body |-> [ error |-> reason,
                      processed |-> Len(ExtractAttendees(r).attendees) ] ]
    ELSE IF reason = "No valid attendees found in CSV"
    THEN [ status |-> 400,
           body |-> [ type |-> "error", error |-> reason,
                      errors |-> ExtractAttendees(r).errors ] ]
    ELSE [ status |-> 400, body |-> [ type |-> "error", error |-> reason ] ]

streamResponse == [ status |-> 200, body |-> "text/event-stream" ]

startMessage(evs, as) ==
    [ type |-> "start", totalEvents |-> Len(evs), totalProcessed |-> Len(as) ]

progressMessage(result, index, total, nSuccessful, nFailed) ==
    [ type |-> "progress", result |-> result, index |-> index, total |-> total,
      successful |-> nSuccessful, failed |-> nFailed ]

\* the completion message with the events counted as the processed attendees
completeMessageCountsEvents(as, nSuccessful, nFailed, rs, errs) ==
    IF Len(errs) > 0
    THEN [ type |-> "complete", totalProcessed |-> Len(rs), successful |-> nSuccessful,
           failed |-> nFailed, results |-> rs, errors |-> errs ]
    ELSE [ type |-> "complete", totalProcessed |-> Len(rs), successful |-> nSuccessful,
           failed |-> nFailed, results |-> rs ]

completeMessage(as, nSuccessful, nFailed, rs, errs) ==
    IF Len(errs) > 0
    THEN [ type |-> "complete", totalProcessed |-> Len(as), successful |-> nSuccessful,
           failed |-> nFailed, results |-> rs, errors |-> errs ]
    ELSE [ type |-> "complete", totalProcessed |-> Len(as), successful |-> nSuccessful,
           failed |-> nFailed, results |-> rs ]

errorMessageOf(error) ==
    [ type |-> "error",
      error |-> IF error.class = "Error" \/ error.class = "IntercomError"
                THEN error.message
                ELSE "Unknown error occurred" ]

\* controller.enqueue of one encoded message
sendMessage(queue, message) == Append(queue, message)

\* An upload request arrives: request.formData()
ReceiveFrom(b, requests) ==
    /\ pc[b] = "off"
    /\ \E r \in requests : req' = [req EXCEPT ![b] = r]
    /\ pc' = [pc EXCEPT ![b] = "request"]
    /\ UNCHANGED <<ui, handler, env, response, attendees, errors, events, idx, results, successful,
                   failed, msgs, closed, inflight, calls, exc, outcome>>

Receive(b) == ReceiveFrom(b, Requests)

POSTReject(b) ==
    /\ pc[b] = "request"
    /\ RejectReason(req[b]) # ""
    /\ response' = [response EXCEPT ![b] = errorResponse(req[b], RejectReason(req[b]))]
    /\ pc' = [pc EXCEPT ![b] = "responded"]
    /\ UNCHANGED <<ui, handler, env, req, attendees, errors, events, idx, results, successful,
                   failed, msgs, closed, inflight, calls, exc, outcome>>

POSTStream(b) ==
    /\ pc[b] = "request"
    /\ RejectReason(req[b]) = ""
    /\ LET extracted == ExtractAttendees(req[b])
           derived   == DerivedEvents(req[b])
       IN  /\ attendees' = [attendees EXCEPT ![b] = extracted.attendees]
           /\ errors' = [errors EXCEPT ![b] = extracted.errors]
           /\ events' = [events EXCEPT ![b] = derived]
           /\ msgs' = [msgs EXCEPT ![b] =
                          sendMessage(@, startMessage(derived, extracted.attendees))]
    /\ response' = [response EXCEPT ![b] = streamResponse]
    /\ results' = [results EXCEPT ![b] = <<>>]
    /\ successful' = [successful EXCEPT ![b] = 0]
    /\ failed' = [failed EXCEPT ![b] = 0]
    /\ idx' = [idx EXCEPT ![b] = 0]
    /\ pc' = [pc EXCEPT ![b] = "loop"]
    /\ UNCHANGED <<ui, handler, env, req, closed, inflight, calls, exc, outcome>>

(***************************************************************************)
(* publishEventsWithProgress, publishEvent, ensureUserExists               *)
(***************************************************************************)
\* the event publishEvent is working on (events[i])
current(b) == events[b][idx[b] + 1]

issue(b, op, client, args) ==
    /\ inflight' = [inflight EXCEPT ![b] = @ \cup {Call(op, client, args, idx[b] + 1)}]
    /\ calls' = [calls EXCEPT ![b] = Append(@, [op |-> op, answer |-> Pending])]

\* the answer of call op arrives: the await resumes
answered(b, op, answer) ==
    [calls EXCEPT ![b] =
        [k \in 1..Len(@) |->
            IF @[k].op = op /\ @[k].answer = Pending
            THEN [@[k] EXCEPT !.answer = answer]
            ELSE @[k]]]

awaiting(b, op) == { c \in inflight[b] : c.op = op }

\* for loop of publishEventsWithProgress: the next publishEvent is called
LoopNext(b) ==
    /\ pc[b] = "loop"
    /\ idx[b] < Len(events[b])
    /\ IF getIntercomClientError(env, req[b].testMode) # NoError
       THEN /\ exc' = [exc EXCEPT ![b] = getIntercomClientError(env, req[b].testMode)]
            /\ pc' = [pc EXCEPT ![b] = "raised"]
       ELSE /\ pc' = [pc EXCEPT ![b] = "ensureEntry"]
            /\ UNCHANGED exc
    /\ UNCHANGED <<ui, handler, env, req, response, attendees, errors, events, idx, results,
                   successful, failed, msgs, closed, inflight, calls, outcome>>

\* LoopExit without the completion message
LoopExitNoComplete(b) ==
    /\ pc[b] = "loop"
    /\ idx[b] >= Len(events[b])
    /\ closed' = [closed EXCEPT ![b] = TRUE]
    /\ pc' = [pc EXCEPT ![b] = "done"]
    /\ UNCHANGED <<ui, handler, env, req, response, attendees, errors, events, idx, results,
                   successful, failed, msgs, inflight, calls, exc, outcome>>

\* the loop ends: POST sends complete and, in finally, closes the stream
LoopExit(b) ==
    /\ pc[b] = "loop"
    /\ idx[b] >= Len(events[b])
    /\ msgs' = [msgs EXCEPT ![b] =
                   sendMessage(@, completeMessage(attendees[b], successful[b], failed[b],
                                                  results[b], errors[b]))]
    /\ closed' = [closed EXCEPT ![b] = TRUE]
    /\ pc' = [pc EXCEPT ![b] = "done"]
    /\ UNCHANGED <<ui, handler, env, req, response, attendees, errors, events, idx, results,
                   successful, failed, inflight, calls, exc, outcome>>

\* StreamCatch without the finally block
StreamCatchNoClose(b) ==
    /\ pc[b] = "raised"
    /\ msgs' = [msgs EXCEPT ![b] = sendMessage(@, errorMessageOf(exc[b]))]
    /\ pc' = [pc EXCEPT ![b] = "done"]
    /\ UNCHANGED <<ui, handler, env, req, response, attendees, errors, events, idx, results,
                   successful, failed, closed, inflight, calls, exc, outcome>>

\* StreamCatch that goes on to the completion message
StreamCatchThenComplete(b) ==
    /\ pc[b] = "raised"
    /\ msgs' = [msgs EXCEPT ![b] =
                   sendMessage(sendMessage(@, errorMessageOf(exc[b])),
                               completeMessage(attendees[b], successful[b], failed[b],
                                               results[b], errors[b]))]
    /\ closed' = [closed EXCEPT ![b] = TRUE]
    /\ pc' = [pc EXCEPT ![b] = "done"]
    /\ UNCHANGED <<ui, handler, env, req, response, attendees, errors, events, idx, results,
                   successful, failed, inflight, calls, exc, outcome>>

\* an exception escaped publishEventsWithProgress: POST's catch and finally
StreamCatch(b) ==
    /\ pc[b] = "raised"
    /\ msgs' = [msgs EXCEPT ![b] = sendMessage(@, errorMessageOf(exc[b]))]
    /\ closed' = [closed EXCEPT ![b] = TRUE]
    /\ pc' = [pc EXCEPT ![b] = "done"]
    /\ UNCHANGED <<ui, handler, env, req, response, attendees, errors, events, idx, results,
                   successful, failed, inflight, calls, exc, outcome>>

\* ensureUserExists is entered: client, userData, contacts.create
EnsureEnter(b) ==
    /\ pc[b] = "ensureEntry"
    /\ IF getIntercomClientError(env, req[b].testMode) # NoError
       THEN /\ exc' = [exc EXCEPT ![b] = getIntercomClientError(env, req[b].testMode)]
            /\ pc' = [pc EXCEPT ![b] = "ensureReturn"]
            /\ UNCHANGED <<inflight, calls>>
       ELSE /\ issue(b, "contacts.create", getIntercomClient(env, req[b].testMode),
                     userData(current(b).email, current(b).name, current(b).phone_number))
            /\ pc' = [pc EXCEPT ![b] = "createCall"]
            /\ UNCHANGED exc
    /\ UNCHANGED <<ui, handler, env, req, response, attendees, errors, events, idx, results,
                   successful, failed, msgs, closed, outcome>>

\* ContactsCreateDone that rethrows an error that is not a conflict
ContactsCreateDoneRethrows(b) ==
    /\ pc[b] = "createCall"
    /\ \E c \in awaiting(b, "contacts.create"), answer \in CreateAnswers :
          IF IsConflict(answer)
          THEN /\ inflight' = [inflight EXCEPT ![b] =
                      (@ \ {c}) \cup {Call("contacts.search", c.client,
                                           searchQuery(current(b).email), c.ev)}]
               /\ calls' = [calls EXCEPT ![b] =
                      Append(answered(b, c.op, answer)[b],
                             [op |-> "contacts.search", answer |-> Pending])]
               /\ pc' = [pc EXCEPT ![b] = "searchCall"]
               /\ UNCHANGED exc
          ELSE /\ inflight' = [inflight EXCEPT ![b] = @ \ {c}]
               /\ calls' = answered(b, c.op, answer)
               /\ exc' = [exc EXCEPT ![b] = answer.error]
               /\ pc' = [pc EXCEPT ![b] = "ensureReturn"]
    /\ UNCHANGED <<ui, handler, env, req, response, attendees, errors, events, idx, results,
                   successful, failed, msgs, closed, outcome>>

\* contacts.create is answered
ContactsCreateDone(b) ==
    /\ pc[b] = "createCall"
    /\ \E c \in awaiting(b, "contacts.create"), answer \in CreateAnswers :
          IF IsConflict(answer)
          THEN /\ inflight' = [inflight EXCEPT ![b] =
                      (@ \ {c}) \cup {Call("contacts.search", c.client,
                                           searchQuery(current(b).email), c.ev)}]
               /\ calls' = [calls EXCEPT ![b] =
                      Append(answered(b, c.op, answer)[b],
                             [op |-> "contacts.search", answer |-> Pending])]
               /\ pc' = [pc EXCEPT ![b] = "searchCall"]
          ELSE /\ inflight' = [inflight EXCEPT ![b] = @ \ {c}]
               /\ calls' = answered(b, c.op, answer)
               /\ pc' = [pc EXCEPT ![b] = "ensureReturn"]
    /\ UNCHANGED <<ui, handler, env, req, response, attendees, errors, events, idx, results,
                   successful, failed, msgs, closed, exc, outcome>>

\* wantsUpdate without the test for a field to write
wantsUpdateAnyMatch(answer, event) ==
    /\ answer.status = "ok"
    /\ Len(answer.data) > 0

\* the update of ensureUserExists is wanted: a match and a field to write
wantsUpdate(answer, event) ==
    /\ answer.status = "ok"
    /\ Len(answer.data) > 0
    /\ DOMAIN updateData(answer.data[1], event.name, event.phone_number) # {"contact_id"}

\* ContactsSearchDone without the inner try/catch: a failed search is rethrown
ContactsSearchDoneRethrows(b) ==
    /\ pc[b] = "searchCall"
    /\ \E c \in awaiting(b, "contacts.search"), answer \in SearchAnswers :
          /\ inflight' = [inflight EXCEPT ![b] = @ \ {c}]
          /\ calls' = answered(b, c.op, answer)
          /\ exc' = [exc EXCEPT ![b] = answer.error]
    /\ pc' = [pc EXCEPT ![b] = "ensureReturn"]
    /\ UNCHANGED <<ui, handler, env, req, response, attendees, errors, events, idx, results,
                   successful, failed, msgs, closed, outcome>>

\* contacts.search is answered
ContactsSearchDone(b) ==
    /\ pc[b] = "searchCall"
    /\ \E c \in awaiting(b, "contacts.search"), answer \in SearchAnswers :
          IF wantsUpdate(answer, current(b))
          THEN /\ inflight' = [inflight EXCEPT ![b] =
                      (@ \ {c}) \cup {Call("contacts.update", c.client,
                                           updateData(answer.data[1], current(b).name,
                                                      current(b).phone_number), c.ev)}]
               /\ calls' = [calls EXCEPT ![b] =
                      Append(answered(b, c.op, answer)[b],
                             [op |-> "contacts.update", answer |-> Pending])]
               /\ pc' = [pc EXCEPT ![b] = "updateCall"]
          ELSE /\ inflight' = [inflight EXCEPT ![b] = @ \ {c}]
               /\ calls' = answered(b, c.op, answer)
               /\ pc' = [pc EXCEPT ![b] = "ensureReturn"]
    /\ UNCHANGED <<ui, handler, env, req, response, attendees, errors, events, idx, results,
                   successful, failed, msgs, closed, exc, outcome>>

\* ContactsUpdateDone for an update that is not awaited: ensureUserExists has
\* returned and the answer arrives whenever
ContactsUpdateNotAwaited(b) ==
    /\ pc[b] = "updateCall"
    /\ pc' = [pc EXCEPT ![b] = "ensureReturn"]
    /\ UNCHANGED <<ui, handler, env, req, response, attendees, errors, events, idx, results,
                   successful, failed, msgs, closed, inflight, calls, exc, outcome>>

\* contacts.update is answered: ensureUserExists returns either way
ContactsUpdateDone(b) ==
    /\ pc[b] = "updateCall"
    /\ \E c \in awaiting(b, "contacts.update"), answer \in UpdateAnswers :
          /\ inflight' = [inflight EXCEPT ![b] = @ \ {c}]
          /\ calls' = answered(b, c.op, answer)
    /\ pc' = [pc EXCEPT ![b] = "ensureReturn"]
    /\ UNCHANGED <<ui, handler, env, req, response, attendees, errors, events, idx, results,
                   successful, failed, msgs, closed, exc, outcome>>

\* publishEvent resumes after ensureUserExists: its catch, or the settle delay
EnsureReturn(b) ==
    /\ pc[b] = "ensureReturn"
    /\ IF exc[b] # NoError
       THEN /\ outcome' = [outcome EXCEPT ![b] = <<failureResult(current(b), exc[b])>>]
            /\ exc' = [exc EXCEPT ![b] = NoError]
            /\ pc' = [pc EXCEPT ![b] = "publishReturn"]
       ELSE /\ pc' = [pc EXCEPT ![b] = "settle"]
            /\ UNCHANGED <<exc, outcome>>
    /\ UNCHANGED <<ui, handler, env, req, response, attendees, errors, events, idx, results,
                   successful, failed, msgs, closed, inflight, calls>>

\* the 200 ms settle delay elapses: events.create is issued
SettleElapsed(b) ==
    /\ pc[b] = "settle"
    /\ issue(b, "events.create", getIntercomClient(env, req[b].testMode),
             eventPayload(current(b)))
    /\ pc' = [pc EXCEPT ![b] = "eventCall"]
    /\ UNCHANGED <<ui, handler, env, req, response, attendees, errors, events, idx, results,
                   successful, failed, msgs, closed, exc, outcome>>

\* the result of publishEvent for the answer of events.create
publishResult(event, answer) ==
    IF answer.status = "ok"
    THEN successResult(event)
    ELSE failureResult(event, answer.error)

\* events.create is answered: publishEvent returns its result
EventsCreateDone(b) ==
    /\ pc[b] = "eventCall"
    /\ \E c \in awaiting(b, "events.create"), answer \in EventAnswers :
          /\ inflight' = [inflight EXCEPT ![b] = @ \ {c}]
          /\ calls' = answered(b, c.op, answer)
          /\ outcome' = [outcome EXCEPT ![b] = <<publishResult(current(b), answer)>>]
    /\ pc' = [pc EXCEPT ![b] = "publishReturn"]
    /\ UNCHANGED <<ui, handler, env, req, response, attendees, errors, events, idx, results,
                   successful, failed, msgs, closed, exc>>

\* a pacing delay after every event of any batch
pacingWantedAlways(evs) == Len(evs) > 0

\* a pacing delay follows onProgress
pacingWanted(evs) == Len(evs) > 1

\* OnProgress that reports the counters before it counts the result
OnProgressStaleCounters(b) ==
    /\ pc[b] = "publishReturn"
    /\ LET result      == outcome[b][1]
           nSuccessful == IF result.success THEN successful[b] + 1 ELSE successful[b]
           nFailed     == IF result.success THEN failed[b] ELSE failed[b] + 1
       IN  /\ results' = [results EXCEPT ![b] = Append(@, result)]
           /\ successful' = [successful EXCEPT ![b] = nSuccessful]
           /\ failed' = [failed EXCEPT ![b] = nFailed]
           /\ msgs' = [msgs EXCEPT ![b] =
                  sendMessage(@, progressMessage(result, idx[b] + 1, Len(events[b]),
                                                 successful[b], failed[b]))]
    /\ outcome' = [outcome EXCEPT ![b] = <<>>]
    /\ calls' = [calls EXCEPT ![b] = <<>>]
    /\ IF pacingWanted(events[b])
       THEN /\ pc' = [pc EXCEPT ![b] = "pacing"]
            /\ UNCHANGED idx
       ELSE /\ pc' = [pc EXCEPT ![b] = "loop"]
            /\ idx' = [idx EXCEPT ![b] = @ + 1]
    /\ UNCHANGED <<ui, handler, env, req, response, attendees, errors, events, closed, inflight, exc>>

\* onProgress(result, i + 1, total): POST's callback
OnProgress(b) ==
    /\ pc[b] = "publishReturn"
    /\ LET result      == outcome[b][1]
           nSuccessful == IF result.success THEN successful[b] + 1 ELSE successful[b]
           nFailed     == IF result.success THEN failed[b] ELSE failed[b] + 1
       IN  /\ results' = [results EXCEPT ![b] = Append(@, result)]
           /\ successful' = [successful EXCEPT ![b] = nSuccessful]
           /\ failed' = [failed EXCEPT ![b] = nFailed]
           /\ msgs' = [msgs EXCEPT ![b] =
                  sendMessage(@, progressMessage(result, idx[b] + 1, Len(events[b]),
                                                 nSuccessful, nFailed))]
    /\ outcome' = [outcome EXCEPT ![b] = <<>>]
    /\ calls' = [calls EXCEPT ![b] = <<>>]
    /\ IF pacingWanted(events[b])
       THEN /\ pc' = [pc EXCEPT ![b] = "pacing"]
            /\ UNCHANGED idx
       ELSE /\ pc' = [pc EXCEPT ![b] = "loop"]
            /\ idx' = [idx EXCEPT ![b] = @ + 1]
    /\ UNCHANGED <<ui, handler, env, req, response, attendees, errors, events, closed, inflight, exc>>

\* the 100 ms pacing delay elapses: i++
PacingElapsed(b) ==
    /\ pc[b] = "pacing"
    /\ pc' = [pc EXCEPT ![b] = "loop"]
    /\ idx' = [idx EXCEPT ![b] = @ + 1]
    /\ UNCHANGED <<ui, handler, env, req, response, attendees, errors, events, results, successful,
                   failed, msgs, closed, inflight, calls, exc, outcome>>

\* publishEvents: results.push(result), then the pacing test
ResultsPush(b) ==
    /\ pc[b] = "publishReturn"
    /\ results' = [results EXCEPT ![b] = Append(@, outcome[b][1])]
    /\ outcome' = [outcome EXCEPT ![b] = <<>>]
    /\ calls' = [calls EXCEPT ![b] = <<>>]
    /\ IF pacingWanted(events[b])
       THEN /\ pc' = [pc EXCEPT ![b] = "pacing"]
            /\ UNCHANGED idx
       ELSE /\ pc' = [pc EXCEPT ![b] = "loop"]
            /\ idx' = [idx EXCEPT ![b] = @ + 1]
    /\ UNCHANGED <<ui, handler, env, req, response, attendees, errors, events, successful,
                   failed, msgs, closed, inflight, exc>>

\* publishEvents: the loop is over, return results
publishEventsReturn(b) ==
    /\ pc[b] = "loop"
    /\ idx[b] >= Len(events[b])
    /\ pc' = [pc EXCEPT ![b] = "returned"]
    /\ UNCHANGED <<ui, handler, env, req, response, attendees, errors, events, idx, results,
                   successful, failed, msgs, closed, inflight, calls, exc, outcome>>

\* publishEvents: an exception of publishEvent rejects the returned promise
publishEventsReject(b) ==
    /\ pc[b] = "raised"
    /\ pc' = [pc EXCEPT ![b] = "rejected"]
    /\ UNCHANGED <<ui, handler, env, req, response, attendees, errors, events, idx, results,
                   successful, failed, msgs, closed, inflight, calls, exc, outcome>>

\* The steps of publishEvents
publishEvents(b) ==
    \/ LoopNext(b)
    \/ publishEventsReturn(b)
    \/ publishEventsReject(b)
    \/ EnsureEnter(b)
    \/ ContactsCreateDone(b)
    \/ ContactsSearchDone(b)
    \/ ContactsUpdateDone(b)
    \/ EnsureReturn(b)
    \/ SettleElapsed(b)
    \/ EventsCreateDone(b)
    \/ ResultsPush(b)
    \/ PacingElapsed(b)

\* The steps of a stream once it is open
Publish(b) ==
    \/ LoopNext(b)
    \/ LoopExit(b)
    \/ StreamCatch(b)
    \/ EnsureEnter(b)
    \/ ContactsCreateDone(b)
    \/ ContactsSearchDone(b)
    \/ ContactsUpdateDone(b)
    \/ EnsureReturn(b)
    \/ SettleElapsed(b)
    \/ EventsCreateDone(b)
    \/ OnProgress(b)
    \/ PacingElapsed(b)

Handle(b) ==
    \/ POSTReject(b)
    \/ POSTStream(b)
    \/ Publish(b)

\* One upload
Uploads == {"A"}

Next == \E b \in Uploads : Receive(b) \/ Handle(b)

Spec == Init /\ [][Next]_vars

\* One upload of the full mapping without event settings; every remote call is
\* answered, every timer fires and every continuation runs
LiveRequests ==
    [ file : {"luma.csv"}, mapping : {MapFull}, csvColumns : {Columns},
      data : SeqsUpTo({RowAnn, RowBob, RowEve}, MaxRows), settings : {NoSettings},
      testMode : BOOLEAN ]

LiveNext == \E b \in Uploads : ReceiveFrom(b, LiveRequests) \/ Handle(b)

LiveSpec ==
    Init /\ [][LiveNext]_vars /\ WF_vars(\E b \in Uploads : Publish(b))

\* One upload of the full mapping under every configuration of the two tokens
AnyEnvSpec == InitAnyEnv /\ [][LiveNext]_vars

(***************************************************************************)
(* Two uploads served at the same time, their steps interleaved            *)
(***************************************************************************)
\* upload A has two events, upload B one event or no valid row; each in either mode
ConcurrentRequests(b) ==
    [ file : {"luma.csv"}, mapping : {MapFull}, csvColumns : {Columns},
      data : IF b = "A" THEN {<<RowBob, RowAnn>>} ELSE {<<RowEve>>, <<RowAnn>>},
      settings : {NoSettings}, testMode : BOOLEAN ]

ConcurrentNext == \E b \in Batches : ReceiveFrom(b, ConcurrentRequests(b)) \/ Handle(b)

ConcurrentSpec == InitAnyEnv /\ [][ConcurrentNext]_vars

(***************************************************************************)
(* publishEventsWithProgress (run A, with POST's callback) and             *)
(* publishEvents (run B) on the same events and the same testMode.  The    *)
(* remote API gives run B's calls the answers it gave run A's: A takes a   *)
(* step, then B takes the step that follows with those answers.            *)
(***************************************************************************)
EquivRequests == { r \in LiveRequests : RejectReason(r) = "" }

\* the event sequences handed to both variants, the empty one included
InitEquiv ==
    /\ env \in Envs
    /\ ui = UiInit
    /\ handler = [b \in Batches |-> NoHandler]
    /\ \E r \in EquivRequests, n \in {0, MaxRows} :
          /\ req = [b \in Batches |-> r]
          /\ events = [b \in Batches |->
                          SubSeq(DerivedEvents(r), 1,
                                 IF n < Len(DerivedEvents(r))
                                 THEN n ELSE Len(DerivedEvents(r)))]
          /\ msgs = [b \in Batches |->
                        IF b = "A"
                        THEN <<startMessage(events[b], <<>>)>>
                        ELSE <<>>]
    /\ pc = [b \in Batches |-> "loop"]
    /\ response = [b \in Batches |-> IF b = "A" THEN streamResponse ELSE [status |-> 0]]
    /\ attendees = [b \in Batches |-> <<>>]
    /\ errors = [b \in Batches |-> <<>>]
    /\ idx = [b \in Batches |-> 0]
    /\ results = [b \in Batches |-> <<>>]
    /\ successful = [b \in Batches |-> 0]
    /\ failed = [b \in Batches |-> 0]
    /\ closed = [b \in Batches |-> FALSE]
    /\ inflight = [b \in Batches |-> {}]
    /\ calls = [b \in Batches |-> <<>>]
    /\ exc = [b \in Batches |-> NoError]
    /\ outcome = [b \in Batches |-> <<>>]

\* where publishEvents stands when publishEventsWithProgress stands at p
ArrayPc(p) ==
    IF p = "done"
    THEN IF exc["A"] # NoError THEN "rejected" ELSE "returned"
    ELSE p

\* run B has caught up with run A
Sync ==
    /\ pc["B"] = ArrayPc(pc["A"])
    /\ idx["B"] = idx["A"]
    /\ calls["B"] = calls["A"]
    /\ inflight["B"] = inflight["A"]
    /\ outcome["B"] = outcome["A"]
    /\ results["B"] = results["A"]

\* the answers run B's calls have got are those of the same calls of run A
SameResponses(mine, theirs) ==
    \A k \in 1..Len(mine) :
        k <= Len(theirs) => mine[k].answer \in {Pending, theirs[k].answer}

NextEquiv ==
    \/ Sync /\ Publish("A")
    \/ ~Sync /\ publishEvents("B") /\ SameResponses(calls'["B"], calls["A"])

EquivSpec == InitEquiv /\ [][NextEquiv]_vars

(***************************************************************************)
(* publishEventsWithProgress with POST's callback on events given directly *)
(***************************************************************************)
DirectMetadata ==
    [ event_name : {Undefined, "Launch"}, event_date : {Null, "2024-06-01"},
      ticket_type : {"", "VIP"}, presenter : {Undefined, "", "Pat"} ]

DirectEvents ==
    { [ event_name |-> "attended-event", created_at |-> NowSeconds,
        email |-> <<"ann", "@", "x.com">>, name |-> "Ann", phone_number |-> "",
        metadata |-> m ] : m \in DirectMetadata }

\* batches of one event given up to MaxRows times
DirectBatches == UNION { [1..k -> {e}] : e \in DirectEvents, k \in 1..MaxRows }

InitPublish ==
    /\ env \in Envs
    /\ ui = UiInit
    /\ handler = [b \in Batches |-> NoHandler]
    /\ \E evs \in DirectBatches, t \in BOOLEAN :
          /\ req = [b \in Batches |->
                        IF b = "A" THEN [NoRequest EXCEPT !.testMode = t] ELSE NoRequest]
          /\ events = [b \in Batches |-> IF b = "A" THEN evs ELSE <<>>]
          /\ msgs = [b \in Batches |->
                        IF b = "A" THEN <<startMessage(evs, <<>>)>> ELSE <<>>]
    /\ pc = [b \in Batches |-> IF b = "A" THEN "loop" ELSE "off"]
    /\ response = [b \in Batches |-> IF b = "A" THEN streamResponse ELSE [status |-> 0]]
    /\ attendees = [b \in Batches |-> <<>>]
    /\ errors = [b \in Batches |-> <<>>]
    /\ idx = [b \in Batches |-> 0]
    /\ results = [b \in Batches |-> <<>>]
    /\ successful = [b \in Batches |-> 0]
    /\ failed = [b \in Batches |-> 0]
    /\ closed = [b \in Batches |-> FALSE]
    /\ inflight = [b \in Batches |-> {}]
    /\ calls = [b \in Batches |-> <<>>]
    /\ exc = [b \in Batches |-> NoError]
    /\ outcome = [b \in Batches |-> <<>>]

NextPublish == \E b \in Uploads : Publish(b)

PublishSpec == InitPublish /\ [][NextPublish]_vars

(***************************************************************************)
(* The derivation alone: POST up to the opening of the stream, over every   *)
(* form of the event settings and of the status text                       *)
(***************************************************************************)
DeriveRequests ==
    [ file : {"luma.csv"}, mapping : {MapFull}, csvColumns : {Columns},
      data : SeqsUpTo(DeriveRows, MaxRows), settings : AllSettings, testMode : BOOLEAN ]

DeriveNext ==
    \E b \in Uploads :
        \/ ReceiveFrom(b, DeriveRequests)
        \/ POSTReject(b)
        \/ POSTStream(b)

DeriveSpec == Init /\ [][DeriveNext]_vars

(***************************************************************************)
(* The derivation over rows whose only signal is the hasJoinedEvent cell,  *)
(* with that column mapped or not                                          *)
(***************************************************************************)
JoinedTexts == {"TRUE", "1", "Y", " Joined ", " YES ", "no", "", "0", "yes, late"}

JoinedRows ==
    { [ Email |-> <<"kim", "@", "x.com">>, Name |-> "Kim", Phone |-> "",
        RegisteredAt |-> "", CheckedInAt |-> "", Ticket |-> "",
        Status |-> "", Joined |-> v, Approval |-> "" ] : v \in JoinedTexts }

MapNoJoined == [ MapFull EXCEPT !.hasJoinedEvent = Undefined ]

JoinedRequests ==
    [ file : {"luma.csv"}, mapping : {MapFull, MapNoJoined}, csvColumns : {Columns},
      data : SeqsUpTo(JoinedRows, MaxRows), settings : {NoSettings}, testMode : {FALSE} ]

JoinedNext ==
    \E b \in Uploads :
        \/ ReceiveFrom(b, JoinedRequests)
        \/ POSTReject(b)
        \/ POSTStream(b)

JoinedSpec == Init /\ [][JoinedNext]_vars

(***************************************************************************)
(* Uploads with invited rows, the approval_status column mapped or not     *)
(***************************************************************************)
RowIvy ==
    [ Email |-> <<"ivy", "@", "x.com">>, Name |-> "Ivy", Phone |-> "",
      RegisteredAt |-> "2024-05-01", CheckedInAt |-> "", Ticket |-> "",
      Status |-> "", Joined |-> "", Approval |-> "invited" ]

ApprovalRows == {RowAnn, RowFay, RowIvy, RowEve}

MapNoApproval == [ MapFull EXCEPT !.approval_status = Undefined ]

ApprovalRequests ==
    [ file : {"luma.csv"}, mapping : {MapFull, MapNoApproval}, csvColumns : {Columns},
      data : SeqsUpTo(ApprovalRows, MaxRows), settings : {NoSettings},
      testMode : {FALSE} ]

ApprovalNext == \E b \in Uploads : ReceiveFrom(b, ApprovalRequests) \/ Handle(b)

ApprovalSpec == Init /\ [][ApprovalNext]_vars

(***************************************************************************)
(* The page: its handlers, the requests it submits and the stream it reads *)
(***************************************************************************)
\* the state of the uploads that the page's own steps leave alone
uploadVars ==
    <<response, attendees, errors, events, idx, results, successful, failed, msgs,
      closed, inflight, calls, exc, outcome>>

\* the files the user may select: a guest list whose one guest gives two events,
\* a guest list with no registration or attendance data, and a text file
UiFiles ==
    { [name |-> "luma.csv", data |-> <<RowCy>>],
      [name |-> "luma.csv", data |-> <<RowDee>>],
      [name |-> "notes.txt", data |-> <<>>] }

\* suggestMapping for the columns of these files
suggestMapping(columns) ==
    [ json |-> "ok",
      email |-> IF "Email" \in columns THEN "Email" ELSE "",
      name |-> IF "Name" \in columns THEN "Name" ELSE Undefined,
      phone_number |-> IF "Phone" \in columns THEN "Phone" ELSE Undefined,
      registrationDate |-> Undefined,
      attendanceDate |-> Undefined,
      ticketType |-> IF "Ticket" \in columns THEN "Ticket" ELSE Undefined,
      status |-> IF "Status" \in columns THEN "Status" ELSE Undefined,
      hasJoinedEvent |-> IF "Joined" \in columns THEN "Joined" ELSE Undefined,
      approval_status |-> IF "Status" \in columns THEN "Status"
                          ELSE IF "Approval" \in columns THEN "Approval"
                          ELSE Undefined ]

\* extractEventSettingsFromFilename, <<>> for undefined: "luma.csv" has not the
\* form "<name> - Guests - <date>.csv"
extractEventSettingsFromFilename(name) == <<>>

\* GET /api/config answers, before the user has selected a file: Test Mode is on
\* by default when it is available
ConfigLoaded ==
    /\ ui.configRequest = "pending"
    /\ ui.currentStep = "upload" /\ ui.file = <<>> /\ ~ui.loadingPreview
    /\ LET available == ~Falsy(env["INTERCOM_ACCESS_TOKEN_TEST"]) IN
       ui' = [ui EXCEPT !.configRequest = "done",
                        !.testModeAvailable = available,
                        !.testMode = IF available THEN TRUE ELSE @]
    /\ UNCHANGED <<handler, env, req, pc, uploadVars>>

\* GET /api/config fails
ConfigFailed ==
    /\ ui.configRequest = "pending"
    /\ ui.currentStep = "upload" /\ ui.file = <<>> /\ ~ui.loadingPreview
    /\ ui' = [ui EXCEPT !.configRequest = "done", !.testModeAvailable = FALSE]
    /\ UNCHANGED <<handler, env, req, pc, uploadVars>>

\* handleFileChange, up to the fetch of loadPreview
handleFileChange(f) ==
    /\ ui.currentStep = "upload"
    /\ ~ui.loadingPreview
    /\ IF EndsWithCsv(f.name)
       THEN ui' = [ui EXCEPT !.file = <<f>>, !.error = <<>>, !.results = <<>>,
                             !.currentStep = "mapping", !.loadingPreview = TRUE]
       ELSE ui' = [ui EXCEPT !.error = <<"Please select a CSV file">>, !.file = <<>>]
    /\ UNCHANGED <<handler, env, req, pc, uploadVars>>

\* loadPreview: /api/preview answers with the preview of the file
PreviewLoaded ==
    /\ ui.loadingPreview
    /\ LET extracted == extractEventSettingsFromFilename("luma.csv") IN
       ui' = [ui EXCEPT !.preview = TRUE,
                        !.mapping = suggestMapping(Columns),
                        !.eventSettings = IF extracted # <<>> THEN extracted[1] ELSE @,
                        !.loadingPreview = FALSE]
    /\ UNCHANGED <<handler, env, req, pc, uploadVars>>

\* loadPreview: /api/preview fails or cannot be reached
PreviewFailed ==
    /\ ui.loadingPreview
    /\ ui' = [ui EXCEPT !.error = <<"Failed to preview CSV">>,
                        !.currentStep = "upload", !.loadingPreview = FALSE]
    /\ UNCHANGED <<handler, env, req, pc, uploadVars>>

\* the mapping view is on screen
MappingView == ui.currentStep = "mapping" /\ ui.preview

\* the results view is on screen
ResultsView == ui.currentStep = "results" /\ ui.results # <<>>

\* the "Run in Production" button is on screen
RunInProductionOffered ==
    /\ ResultsView
    /\ ui.wasTestMode
    /\ ui.results[1].success
    /\ ui.results[1].successful > 0

\* the user picks another column, or none, for the e-mail address
setMapping(column) ==
    /\ MappingView
    /\ ui.mapping.email # column
    /\ ui' = [ui EXCEPT !.mapping.email = column]
    /\ UNCHANGED <<handler, env, req, pc, uploadVars>>

\* the user ticks or clears Test Mode
setTestMode(checked) ==
    /\ MappingView
    /\ ui.testModeAvailable
    /\ ui.testMode # checked
    /\ ui' = [ui EXCEPT !.testMode = checked]
    /\ UNCHANGED <<handler, env, req, pc, uploadVars>>

handleReset ==
    /\ MappingView \/ ResultsView
    /\ ui' = [ui EXCEPT !.file = <<>>, !.preview = FALSE, !.mapping = UiInit.mapping,
                        !.eventSettings = NoSettings, !.testMode = FALSE,
                        !.results = <<>>, !.error = <<>>, !.wasTestMode = FALSE,
                        !.streamingResults = <<>>,
                        !.streamingStats = UiInit.streamingStats,
                        !.currentStep = "upload"]
    /\ UNCHANGED <<handler, env, req, pc, uploadVars>>

\* An upload of the page takes the first free slot.  The user starts an upload
\* while the handlers of earlier uploads have returned or wait for the end of a
\* stream they have read (the bound of the page model on handlers at work at once).
Free(b) == pc[b] = "off" /\ handler[b].pc = "idle"

IsNextUpload(b) ==
    /\ Free(b)
    /\ b = "B" => ~Free("A")
    /\ \A c \in Batches : handler[c].pc \in {"idle", "drained"}

\* the form data of /api/upload
formData(testMode) ==
    [ file |-> ui.file[1].name, mapping |-> ui.mapping, csvColumns |-> Columns,
      data |-> ui.file[1].data, settings |-> ui.eventSettings, testMode |-> testMode ]

\* what both handlers set before the fetch
Submitting ==
    [ui EXCEPT !.uploading = TRUE, !.error = <<>>, !.results = <<>>,
               !.streamingResults = <<>>, !.streamingStats = UiInit.streamingStats,
               !.currentStep = "processing"]

\* handleProcess, up to the fetch of /api/upload
handleProcess(b) ==
    /\ MappingView
    /\ ~Falsy(ui.mapping.email)
    /\ IsNextUpload(b)
    /\ IF ui.file = <<>> \/ Falsy(ui.mapping.email)
       THEN /\ ui' = [ui EXCEPT !.error = <<"Email column mapping is required">>]
            /\ UNCHANGED <<handler, req, pc>>
       ELSE /\ ui' = Submitting
            /\ handler' = [handler EXCEPT ![b] =
                              [ pc |-> "fetch", name |-> "handleProcess",
                                testMode |-> ui.testMode, read |-> 0 ]]
            /\ req' = [req EXCEPT ![b] = formData(ui.testMode)]
            /\ pc' = [pc EXCEPT ![b] = "request"]
    /\ UNCHANGED <<env, uploadVars>>

\* handleRunInProduction, up to the fetch of /api/upload
handleRunInProduction(b) ==
    /\ RunInProductionOffered
    /\ IsNextUpload(b)
    /\ IF ui.file = <<>> \/ Falsy(ui.mapping.email)
       THEN /\ ui' = [ui EXCEPT !.error = <<"Email column mapping is required">>]
            /\ UNCHANGED <<handler, req, pc>>
       ELSE /\ ui' = [Submitting EXCEPT !.testMode = FALSE]
            /\ handler' = [handler EXCEPT ![b] =
                              [ pc |-> "fetch", name |-> "handleRunInProduction",
                                testMode |-> FALSE, read |-> 0 ]]
            /\ req' = [req EXCEPT ![b] = formData(FALSE)]
            /\ pc' = [pc EXCEPT ![b] = "request"]
    /\ UNCHANGED <<env, uploadVars>>

\* a failure that leaves uploading set
FailingKeepsUploading(text) ==
    [ui EXCEPT !.error = <<text>>, !.currentStep = "mapping"]

\* what every failure of an upload sets: the error, the mapping step
Failing(text) ==
    [ui EXCEPT !.error = <<text>>, !.currentStep = "mapping", !.uploading = FALSE]

\* a || b of a text
OrText(text, default) == IF Falsy(text) THEN default ELSE text

\* what the server held of upload b is dropped
dropped(b) ==
    /\ req' = [req EXCEPT ![b] = NoRequest]
    /\ pc' = [pc EXCEPT ![b] = "off"]
    /\ response' = [response EXCEPT ![b] = [status |-> 0]]
    /\ attendees' = [attendees EXCEPT ![b] = <<>>]
    /\ errors' = [errors EXCEPT ![b] = <<>>]
    /\ events' = [events EXCEPT ![b] = <<>>]
    /\ idx' = [idx EXCEPT ![b] = 0]
    /\ results' = [results EXCEPT ![b] = <<>>]
    /\ successful' = [successful EXCEPT ![b] = 0]
    /\ failed' = [failed EXCEPT ![b] = 0]
    /\ msgs' = [msgs EXCEPT ![b] = <<>>]
    /\ closed' = [closed EXCEPT ![b] = FALSE]
    /\ inflight' = [inflight EXCEPT ![b] = {}]
    /\ calls' = [calls EXCEPT ![b] = <<>>]
    /\ exc' = [exc EXCEPT ![b] = NoError]
    /\ outcome' = [outcome EXCEPT ![b] = <<>>]

\* the handler of upload b returns: the slot is free again
ends(b) ==
    /\ handler' = [handler EXCEPT ![b] = NoHandler]
    /\ IF handler[b].pc = "drained"
       THEN UNCHANGED <<req, pc, uploadVars>>
       ELSE dropped(b)

\* The page sees of an upload the response, then the messages, then the end or
\* the failure of the stream.  When each of them arrives between the steps of the
\* server changes nothing for the page, so they are delivered once the server has
\* written all it writes.
Written(b) == pc[b] \in {"responded", "done"}

\* the fetch of /api/upload rejects, the answer of the server being lost: the
\* catch of the handler
FetchRejected(b) ==
    /\ handler[b].pc = "fetch"
    /\ Written(b)
    /\ ui' = Failing("Failed to fetch")
    /\ ends(b)
    /\ UNCHANGED env

\* the response is not OK
ResponseNotOk(b) ==
    /\ handler[b].pc = "fetch"
    /\ Written(b)
    /\ response[b].status \notin {0, 200}
    /\ ui' = Failing(OrText(response[b].body.error, "Upload failed"))
    /\ ends(b)
    /\ UNCHANGED env

\* the response is OK and its body gives a reader
ResponseOk(b) ==
    /\ handler[b].pc = "fetch"
    /\ Written(b)
    /\ response[b].status = 200
    /\ handler' = [handler EXCEPT ![b].pc = "read"]
    /\ UNCHANGED <<ui, env, req, pc, uploadVars>>

\* the response is OK and has no body to read
BodyUnreadable(b) ==
    /\ handler[b].pc = "fetch"
    /\ Written(b)
    /\ response[b].status = 200
    /\ ui' = Failing("Failed to read response stream")
    /\ ends(b)
    /\ UNCHANGED env

\* setResults of the complete message.  The field form is history: the form data
\* of the upload these results are of.
resultsOf(message, form) ==
    [ success |-> TRUE, totalProcessed |-> message.totalProcessed,
      successful |-> message.successful, failed |-> message.failed,
      results |-> message.results,
      errors |-> IF "errors" \in DOMAIN message THEN message.errors ELSE Undefined,
      form |-> form ]

\* the state after the handler of upload b has handled one message of the stream
onMessage(b, message) ==
    CASE message.type = "start" ->
            [ui EXCEPT !.streamingStats =
                [ successful |-> 0, failed |-> 0, total |-> message.totalEvents ]]
      [] message.type = "progress" ->
            [ui EXCEPT !.streamingResults = Append(@, message.result),
                       !.streamingStats =
                            [ successful |-> message.successful,
                              failed |-> message.failed, total |-> message.total ]]
      [] message.type = "complete" ->
            [ui EXCEPT !.results = <<resultsOf(message, req[b])>>,
                       !.wasTestMode = IF handler[b].name = "handleRunInProduction"
                                       THEN FALSE
                                       ELSE handler[b].testMode,
                       !.currentStep = "results",
                       !.uploading = FALSE]
      [] message.type = "error" ->
            Failing(OrText(message.error, "An error occurred"))

\* reader.read() gives the next message of the stream
ReadMessage(b) ==
    /\ handler[b].pc = "read"
    /\ handler[b].read < Len(msgs[b])
    /\ ui' = onMessage(b, msgs[b][handler[b].read + 1])
    /\ IF handler[b].read + 1 = Len(msgs[b]) /\ closed[b]
       THEN \* the stream is drained: what the server held of the upload is dropped
            /\ handler' = [handler EXCEPT ![b].pc = "drained", ![b].read = 0]
            /\ dropped(b)
       ELSE /\ handler' = [handler EXCEPT ![b].read = @ + 1]
            /\ UNCHANGED <<req, pc, uploadVars>>
    /\ UNCHANGED env

\* reader.read() gives done: the loop breaks and the handler returns
ReadDone(b) ==
    /\ \/ handler[b].pc = "drained"
       \/ handler[b].pc = "read" /\ handler[b].read = Len(msgs[b]) /\ closed[b]
    /\ ends(b)
    /\ UNCHANGED <<ui, env>>

\* reader.read() rejects, the rest of what the server wrote being lost: the catch
\* of the handler
ReadRejected(b) ==
    /\ handler[b].pc \in {"read", "drained"}
    /\ ui' = Failing("network error")
    /\ ends(b)
    /\ UNCHANGED env

\* what the user can do
User ==
    \/ \E f \in UiFiles : handleFileChange(f)
    \/ \E column \in {"", "Email"} : setMapping(column)
    \/ \E checked \in BOOLEAN : setTestMode(checked)
    \/ handleReset
    \/ \E b \in Batches : handleProcess(b)
    \/ \E b \in Batches : handleRunInProduction(b)

\* what the page does on its own
Page ==
    \/ ConfigLoaded
    \/ ConfigFailed
    \/ PreviewLoaded
    \/ PreviewFailed
    \/ \E b \in Batches :
          \/ FetchRejected(b)
          \/ ResponseNotOk(b)
          \/ ResponseOk(b)
          \/ BodyUnreadable(b)
          \/ ReadMessage(b)
          \/ ReadDone(b)
          \/ ReadRejected(b)

\* the server has the test token, with the production token or without it
UiEnvs == { e \in AllEnvs : ~Falsy(e["INTERCOM_ACCESS_TOKEN_TEST"]) }

InitUi == env \in UiEnvs /\ Idle

\* no server is at work.  The steps of a server change nothing the page or the
\* user sees before they are delivered, so the page and the user take their steps
\* between the uploads' server work and not in the middle of it.
Quiet == \A b \in Batches : pc[b] \in {"off", "responded", "done"}

NextUi ==
    \/ Quiet /\ User
    \/ Quiet /\ Page
    \/ \E b \in Batches : Handle(b)

UiSpec == InitUi /\ [][NextUi]_vars

(***************************************************************************)
(* ensureUserExists called on its own, under every configuration           *)
(***************************************************************************)
StreamingRequests == { r \in Requests : RejectReason(r) = "" }

InitEnsure ==
    /\ env \in AllEnvs
    /\ ui = UiInit
    /\ handler = [b \in Batches |-> NoHandler]
    /\ \E r \in StreamingRequests :
          /\ req = [b \in Batches |-> IF b = "A" THEN r ELSE NoRequest]
          /\ attendees = [b \in Batches |->
                             IF b = "A" THEN ExtractAttendees(r).attendees ELSE <<>>]
          /\ errors = [b \in Batches |->
                          IF b = "A" THEN ExtractAttendees(r).errors ELSE <<>>]
          /\ events = [b \in Batches |-> IF b = "A" THEN DerivedEvents(r) ELSE <<>>]
          /\ msgs = [b \in Batches |->
                        IF b = "A"
                        THEN <<startMessage(DerivedEvents(r), ExtractAttendees(r).attendees)>>
                        ELSE <<>>]
    /\ pc = [b \in Batches |-> IF b = "A" THEN "ensureEntry" ELSE "off"]
    /\ response = [b \in Batches |-> IF b = "A" THEN streamResponse ELSE [status |-> 0]]
    /\ idx = [b \in Batches |-> 0]
    /\ results = [b \in Batches |-> <<>>]
    /\ successful = [b \in Batches |-> 0]
    /\ failed = [b \in Batches |-> 0]
    /\ closed = [b \in Batches |-> FALSE]
    /\ inflight = [b \in Batches |-> {}]
    /\ calls = [b \in Batches |-> <<>>]
    /\ exc = [b \in Batches |-> NoError]
    /\ outcome = [b \in Batches |-> <<>>]

NextEnsure ==
    \E b \in Batches :
        \/ EnsureEnter(b)
        \/ ContactsCreateDone(b)
        \/ ContactsSearchDone(b)
        \/ ContactsUpdateDone(b)

SpecEnsure == InitEnsure /\ [][NextEnsure]_vars

(***************************************************************************)
(* Properties                                                              *)
(***************************************************************************)
Started(b) == pc[b] \notin {"off", "request"}

Streaming(b) == Started(b) /\ response[b].status = 200

IsTerminal(m) == m.type \in {"complete", "error"}

ProgressCount(q) == Cardinality({k \in 1..Len(q) : q[k].type = "progress"})

NoRemoteCall(b) == inflight[b] = {} /\ calls[b] = <<>>

\* C1: the messages of a stream are one start, then one progress per outcome, then,
\* once the stream has ended, exactly one terminal message, complete on normal
\* completion and error when an exception escaped publishEventsWithProgress;
\* nothing follows the terminal message and no progress precedes start.
StreamMessageOrder ==
    \A b \in Batches :
        LET q == msgs[b] IN
        /\ Streaming(b) <=> q # <<>>
        /\ q # <<>> => q[1].type = "start"
        /\ \A k \in 2..Len(q) : q[k].type \in {"progress", "complete", "error"}
        /\ \A k \in 1..Len(q) : IsTerminal(q[k]) => k = Len(q)
        /\ ProgressCount(q) = Len(results[b])
        /\ \A k \in 1..Len(results[b]) :
              q[k + 1].type = "progress" /\ q[k + 1].result = results[b][k]
        /\ q # <<>> => (IsTerminal(q[Len(q)]) <=> pc[b] = "done")
        /\ pc[b] = "done" =>
              /\ q[Len(q)].type = "error" <=> exc[b] # NoError
              /\ q[Len(q)].type = "complete" <=> exc[b] = NoError

StreamMessageOrderWitness ==
    \E b \in Batches :
        /\ pc[b] = "done"
        /\ Len(msgs[b]) >= 4
        /\ msgs[b][Len(msgs[b])].type = "complete"
        /\ \E k \in 1..Len(results[b]) : ~results[b][k].success

\* C2: when a batch has ended, it produced as many outcomes as it derived events,
\* in the same order, outcome[i] carrying the email and the event type of event[i].
OutcomePerEvent ==
    \A b \in Batches :
        pc[b] = "done" =>
            /\ Len(results[b]) = Len(events[b])
            /\ \A k \in 1..Len(results[b]) :
                  /\ results[b][k].email = events[b][k].email
                  /\ results[b][k].eventType = "registered-for-event"
                        <=> events[b][k].event_name = "registered-for-event"
                  /\ results[b][k].eventType \in {"registered-for-event", "attended-event"}

\* C3: publishEvent never raises to its caller, whatever the credentials are.
PublishEventTotal ==
    \A b \in Batches : pc[b] # "raised"

\* C4: a failed event never halts the batch, and nothing but the progress callback
\* or input validation aborts it: a stream that has ended has an outcome for
\* every event and ended with complete.
BatchRunsToCompletion ==
    \A b \in Batches :
        pc[b] = "done" =>
            /\ Len(results[b]) = Len(events[b])
            /\ msgs[b][Len(msgs[b])].type = "complete"

\* C5: after a 409/422 answer of contacts.create, publishEvent reaches
\* events.create whatever search and update answer, and its outcome is a success
\* whenever events.create succeeded.
ConflictStillPublishes ==
    \A b \in Batches :
        (calls[b] # <<>> /\ IsConflict(calls[b][1].answer)) =>
            /\ exc[b] = NoError
            /\ pc[b] \in {"searchCall", "updateCall", "ensureReturn", "settle",
                          "eventCall", "publishReturn"}
            /\ pc[b] = "publishReturn" =>
                  LET last == calls[b][Len(calls[b])] IN
                  /\ last.op = "events.create"
                  /\ last.answer.status = "ok" => outcome[b][1].success

ConflictStillPublishesWitness ==
    \E b \in Batches :
        /\ pc[b] = "publishReturn"
        /\ Len(calls[b]) = 3
        /\ IsConflict(calls[b][1].answer)
        /\ calls[b][2].answer.status = "failed"
        /\ outcome[b][1].success

\* C6: at most one remote call of a batch is in flight, and it belongs to the
\* event the loop is at: every earlier event has its outcome reported and no
\* outcome is waiting for onProgress.
OneCallAtATime ==
    \A b \in Batches :
        /\ Cardinality(inflight[b]) <= 1
        /\ \A c \in inflight[b] :
              /\ c.ev = idx[b] + 1
              /\ Len(results[b]) = idx[b]
              /\ outcome[b] = <<>>
              /\ calls[b][Len(calls[b])].op = c.op
              /\ \A k \in 1..(Len(calls[b]) - 1) : calls[b][k].answer # Pending

OneCallAtATimeWitness ==
    \E b \in Batches :
        \E c \in inflight[b] : c.ev = 2 /\ c.op = "contacts.update"

\* C7: a stream is never closed before its terminal message, nothing is enqueued
\* once it is closed, and, every remote call being answered, every stream that
\* started is eventually closed.
StreamAlwaysCloses ==
    /\ [](\A b \in Batches :
            closed[b] => (msgs[b] # <<>> /\ IsTerminal(msgs[b][Len(msgs[b])])))
    /\ [][\A b \in Batches : closed[b] => (closed'[b] /\ msgs'[b] = msgs[b])]_vars
    /\ \A b \in Batches : (msgs[b] # <<>>) ~> closed[b]

StreamAlwaysClosesWitness ==
    \E b \in Batches :
        /\ closed[b]
        /\ msgs[b][Len(msgs[b])].type = "error"

RowEmail(r, k) == TrimTokens(EmailCell(r.data[k], r.mapping.email))

InvalidRows(r) ==
    { k \in 1..Len(r.data) :
        /\ ~IsInvited(r.data[k], r.mapping)
        /\ ~EmailIsValid(RowEmail(r, k)) }

ValidRows(r) ==
    { k \in 1..Len(r.data) :
        /\ ~IsInvited(r.data[k], r.mapping)
        /\ EmailIsValid(RowEmail(r, k)) }

WellFormed(r) ==
    /\ r.file # Undefined
    /\ EndsWithCsv(r.file)
    /\ r.mapping.json = "ok"
    /\ missingColumns(r) = {}

NoEventsRejectsBatch ==
    \A b \in Batches :
        LET r  == req[b]
            ps == processAttendees(ExtractAttendees(r).attendees)
        IN  (/\ Started(b)
             /\ WellFormed(r)
             /\ ValidRows(r) # {}
             /\ \A k \in 1..Len(ps) : ~ps[k].hasRegistration /\ ~ps[k].hasAttendance) =>
                /\ pc[b] = "responded"
                /\ response[b].status = 400
                /\ response[b].body.error = "No events to publish"
                /\ msgs[b] = <<>>
                /\ NoRemoteCall(b)

NoEventsRejectsBatchWitness ==
    \E b \in Batches :
        /\ pc[b] = "responded"
        /\ req[b].mapping = MapFull
        /\ Len(req[b].data) = 2
        /\ ValidRows(req[b]) # {}
        /\ response[b].body.error = "No events to publish"

\* C11 as claimed: the pacing delay is waited only while more events remain, so no
\* pacing delay follows the last event of a batch.
PacingOnlyBetweenEvents ==
    \A b \in Batches : pc[b] = "pacing" => idx[b] + 1 < Len(events[b])

\* C11 as amended: when onProgress returns, the pacing delay is waited exactly when
\* the batch has more than one event, after every event of such a batch, the last
\* one included; the loop goes on to the next index only once the delay has elapsed,
\* and a single-event batch goes on at once without any delay.
PacingIffMultiEvent ==
    [][\A b \in Batches :
          /\ (pc[b] = "publishReturn" /\ pc'[b] # "publishReturn") =>
                IF Len(events[b]) > 1
                THEN pc'[b] = "pacing" /\ idx'[b] = idx[b]
                ELSE pc'[b] = "loop" /\ idx'[b] = idx[b] + 1
          /\ (pc[b] # "pacing" /\ pc'[b] = "pacing") =>
                /\ pc[b] = "publishReturn"
                /\ Len(results'[b]) = idx[b] + 1
          /\ (pc[b] = "pacing" /\ pc'[b] # "pacing") =>
                pc'[b] = "loop" /\ idx'[b] = idx[b] + 1]_vars

PacingIffMultiEventWitness ==
    \E b \in Batches :
        /\ pc[b] = "pacing"
        /\ Len(events[b]) = 2
        /\ idx[b] + 1 = Len(events[b])
        /\ Len(results[b]) = 2

\* the classified attendees of a batch whose stream is open
Classified(b) == processAttendees(attendees[b])

\* number of events the first k classified attendees contribute
EventsBefore(ps, k) ==
    Cardinality({j \in 1..k : ps[j].hasRegistration})
        + Cardinality({j \in 1..k : ps[j].hasAttendance})

\* C12: the derived events are the concatenation, in attendee order, of a
\* registered-for-event event when hasRegistration followed by an attended-event
\* event when hasAttendance: an attendee with neither flag contributes nothing, one
\* with both contributes two, registration first, and the events of an earlier
\* attendee precede those of a later one.
EventsAreConcatenation ==
    \A b \in Batches :
        Streaming(b) =>
            LET ps == Classified(b) IN
            /\ Len(events[b]) = EventsBefore(ps, Len(ps))
            /\ \A k \in 1..Len(ps) :
                  LET first == EventsBefore(ps, k - 1) + 1
                      last  == EventsBefore(ps, k)
                  IN  /\ ps[k].hasRegistration =>
                            /\ events[b][first].event_name = "registered-for-event"
                            /\ events[b][first].email = ps[k].attendee.email
                      /\ ps[k].hasAttendance =>
                            /\ events[b][last].event_name = "attended-event"
                            /\ events[b][last].email = ps[k].attendee.email
                      /\ (ps[k].hasRegistration /\ ps[k].hasAttendance) => last = first + 1
                      /\ (~ps[k].hasRegistration /\ ~ps[k].hasAttendance) => last = first - 1

EventsAreConcatenationWitness ==
    \E b \in Batches :
        /\ Streaming(b)
        /\ Len(attendees[b]) = 2
        /\ Classified(b)[1].hasRegistration /\ Classified(b)[1].hasAttendance
        /\ Classified(b)[2].hasRegistration /\ ~Classified(b)[2].hasAttendance
        /\ Classified(b)[1].attendee.email # Classified(b)[2].attendee.email
        /\ Len(events[b]) = 3

\* the date text an event's created_at is taken from
DateTextOf(a, event) ==
    IF event.event_name = "registered-for-event" THEN a.registrationDate ELSE a.attendanceDate

\* C16: a date text that is absent or does not parse raises nothing and rejects
\* nothing: the created_at of a registration event is the unix seconds of the
\* attendee's registrationDate, that of an attendance event the unix seconds of the
\* attendanceDate, when the text is present and parses, and the time of the
\* derivation otherwise.
CreatedAtParsedOrNow ==
    \A b \in Batches :
        Streaming(b) =>
            /\ exc[b] = NoError
            /\ \A k \in 1..Len(events[b]) :
                  \E j \in 1..Len(attendees[b]) :
                      LET a == attendees[b][j]
                          e == events[b][k]
                          d == DateTextOf(a, e)
                      IN  /\ a.email = e.email
                          /\ e.created_at = IF d # "" /\ IsValidDate(d)
                                            THEN UnixSeconds(d)
                                            ELSE NowSeconds

CreatedAtParsedOrNowWitness ==
    \E b \in Batches :
        /\ Streaming(b)
        /\ Len(events[b]) = 2
        /\ \E j \in 1..Len(attendees[b]) :
              /\ attendees[b][j].registrationDate = "soon"
              /\ attendees[b][j].email = events[b][1].email
        /\ events[b][1].event_name = "registered-for-event"
        /\ events[b][1].created_at = NowSeconds
        /\ events[b][2].created_at = UnixSeconds("2024-05-02 18:00")

Present(v) == v \notin {Undefined, ""}

\* C17 as claimed: metadata.event_date is eventDate and eventTime joined by a space
\* when both are present, and otherwise whichever of the two is present.
EventDateWhicheverPresent ==
    \A b \in Batches :
        Streaming(b) =>
            \A k \in 1..Len(events[b]) :
                LET st == req[b].settings IN
                events[b][k].metadata.event_date =
                    IF Present(st.eventDate) /\ Present(st.eventTime)
                    THEN SpaceJoin(st.eventDate, st.eventTime)
                    ELSE IF Present(st.eventDate) THEN st.eventDate
                    ELSE IF Present(st.eventTime) THEN st.eventTime
                    ELSE Undefined

\* C17 as amended: metadata.event_date of every derived event is eventDate and
\* eventTime joined by a space when both are present, eventDate alone when only
\* eventDate is present, and absent when eventDate is not present, whether
\* eventTime is present or not.
EventDateNeedsDate ==
    \A b \in Batches :
        Streaming(b) =>
            \A k \in 1..Len(events[b]) :
                LET st == req[b].settings IN
                events[b][k].metadata.event_date =
                    IF Present(st.eventDate) /\ Present(st.eventTime)
                    THEN SpaceJoin(st.eventDate, st.eventTime)
                    ELSE IF Present(st.eventDate) THEN st.eventDate
                    ELSE Undefined

EventDateNeedsDateWitness ==
    \E b \in Batches :
        /\ Streaming(b)
        /\ ~Present(req[b].settings.eventDate)
        /\ req[b].settings.eventTime = "18:00"
        /\ Len(events[b]) = 2
        /\ events[b][1].metadata.event_date = Undefined

\* the keywords a status text contains when case is ignored
StatusKeywords(status) ==
    CASE status = "Registered, Checked In" -> {"registered", "checked"}
      [] status = "Registered"             -> {"registered"}
      [] status = "registered"             -> {"registered"}
      [] status = "Registration open"      -> {"registration"}
      [] status = "Present"                -> {"present"}
      [] OTHER                             -> {}

\* C18: every attendee is classified on its own fields: hasRegistration exactly
\* when registrationDate is non-empty or the status contains registered or
\* registration, hasAttendance exactly when hasJoinedEvent is true or attendanceDate
\* is non-empty or the status contains attended, checked or present, in any case of
\* the letters; an attendee without any signal gets both flags false, and an event
\* of a kind is derived for an attendee exactly when the flag of that kind is set.
ClassificationBySignals ==
    \A b \in Batches :
        Streaming(b) =>
            \A k \in 1..Len(attendees[b]) :
                LET a   == attendees[b][k]
                    reg == \/ a.registrationDate # ""
                           \/ StatusKeywords(a.status) \cap {"registered", "registration"} # {}
                    att == \/ a.hasJoinedEvent = <<TRUE>>
                           \/ a.attendanceDate # ""
                           \/ StatusKeywords(a.status)
                                  \cap {"attended", "checked", "present"} # {}
                IN  /\ Classified(b)[k].hasRegistration = reg
                    /\ Classified(b)[k].hasAttendance = att
                    /\ Classified(b)[k].attendee = a
                    /\ reg = \E n \in 1..Len(events[b]) :
                                /\ events[b][n].email = a.email
                                /\ events[b][n].event_name = "registered-for-event"
                    /\ att = \E n \in 1..Len(events[b]) :
                                /\ events[b][n].email = a.email
                                /\ events[b][n].event_name = "attended-event"

ClassificationBySignalsWitness ==
    \E b \in Batches :
        /\ Streaming(b)
        /\ Len(attendees[b]) = 2
        /\ attendees[b][1].status = "Registered"
        /\ Classified(b)[1].hasRegistration /\ ~Classified(b)[1].hasAttendance
        /\ attendees[b][2].hasJoinedEvent = <<TRUE>>
        /\ ~Classified(b)[2].hasRegistration /\ Classified(b)[2].hasAttendance
        /\ Len(events[b]) = 2

\* the progress messages of a stream, in order
ProgressOf(q) == SelectSeq(q, LAMBDA m : m.type = "progress")

SuccessesIn(ps, k) == Cardinality({j \in 1..k : ps[j].result.success})

\* C13: the counters of every progress message are cumulative and exact: the k-th
\* progress message carries index k, the number of events as total, the k-th
\* outcome, the number of successes among outcomes 1..k as successful and the
\* number of failures among them as failed, so successful + failed = index; the
\* complete message carries the counters of the last progress message.
ProgressCountersExact ==
    \A b \in Batches :
        LET ps == ProgressOf(msgs[b]) IN
        /\ \A k \in 1..Len(ps) :
              /\ ps[k].index = k
              /\ ps[k].total = Len(events[b])
              /\ ps[k].result = results[b][k]
              /\ ps[k].successful = SuccessesIn(ps, k)
              /\ ps[k].failed = k - SuccessesIn(ps, k)
              /\ ps[k].successful + ps[k].failed = ps[k].index
        /\ \A n \in 1..Len(msgs[b]) :
              msgs[b][n].type = "complete" =>
                  /\ msgs[b][n].successful = SuccessesIn(ps, Len(ps))
                  /\ msgs[b][n].failed = Len(ps) - SuccessesIn(ps, Len(ps))
                  /\ msgs[b][n].results = results[b]

ProgressCountersExactWitness ==
    \E b \in Batches :
        /\ pc[b] = "done"
        /\ Len(msgs[b]) = 4
        /\ msgs[b][1].type = "start" /\ msgs[b][1].totalEvents = 2
        /\ msgs[b][2].result.success /\ msgs[b][2].successful = 1 /\ msgs[b][2].failed = 0
        /\ ~msgs[b][3].result.success /\ msgs[b][3].successful = 1 /\ msgs[b][3].failed = 1
        /\ msgs[b][4].type = "complete"
        /\ msgs[b][4].successful = 1 /\ msgs[b][4].failed = 1

\* the address of the row an address sent to the API stands for: itself, or in test
\* mode its text up to the first @ followed by example.com
StandsFor(sent, original, testMode) ==
    IF testMode
    THEN /\ Len(sent) >= 2
         /\ sent[Len(sent)] = "example.com"
         /\ sent[Len(sent) - 1] = "@"
         /\ \A j \in 1..(Len(sent) - 2) : sent[j] # "@"
         /\ Len(original) >= Len(sent) - 1
         /\ SubSeq(original, 1, Len(sent) - 1) = SubSeq(sent, 1, Len(sent) - 1)
    ELSE sent = original

FromARow(b, sent) ==
    \E k \in ValidRows(req[b]) : StandsFor(sent, RowEmail(req[b], k), req[b].testMode)

\* C14: in test mode every address in a contacts.create, contacts.search or
\* events.create call and in every outcome is an address of the file with its text
\* after the first @ replaced by example.com, and every remote call carries the
\* token of INTERCOM_ACCESS_TOKEN_TEST, never the production one; without test mode
\* the addresses are those of the file and the production token is carried.
TestModeIsolation ==
    \A b \in Batches :
        /\ \A c \in inflight[b] :
              /\ c.client.token = Secret(TokenName(req[b].testMode))
              /\ c.client.token = env[TokenName(req[b].testMode)]
              /\ c.client.token # Secret(TokenName(~req[b].testMode))
              /\ c.op \in {"contacts.create", "events.create"} => FromARow(b, c.args.email)
              /\ c.op = "contacts.search" => FromARow(b, c.args.value)
        /\ \A k \in 1..Len(results[b]) : FromARow(b, results[b][k].email)
        /\ \A k \in 1..Len(outcome[b]) : FromARow(b, outcome[b][k].email)

TestModeIsolationWitness ==
    \E b \in Batches :
        /\ req[b].testMode
        /\ env["INTERCOM_ACCESS_TOKEN"] = "tok_live"
        /\ Len(results[b]) = 1
        /\ results[b][1].email = <<"bob", "@", "example.com">>
        /\ \E c \in inflight[b] :
              /\ c.op = "contacts.search"
              /\ c.args.value = <<"ann", "@", "example.com">>
              /\ c.client.token = "tok_test"

OpsOf(cs, op) == {k \in 1..Len(cs) : cs[k].op = op}

\* C19: with the selected token set, the outcome of an event is a success exactly
\* when its events.create call succeeded, whatever contacts.create, contacts.search
\* and contacts.update answered; events.create is issued once for every event,
\* after the contact calls, and every event of a finished batch has its outcome.
OutcomeFollowsEventsCreate ==
    \A b \in Batches :
        /\ pc[b] = "publishReturn" =>
              LET cs == calls[b] IN
              /\ Len(outcome[b]) = 1
              /\ OpsOf(cs, "events.create") = {Len(cs)}
              /\ cs[Len(cs)].answer # Pending
              /\ outcome[b][1].success = (cs[Len(cs)].answer.status = "ok")
              /\ ~outcome[b][1].success =>
                    outcome[b][1].error = errorMessage(cs[Len(cs)].answer.error)
        /\ (pc[b] = "done" /\ ~Falsy(env[TokenName(req[b].testMode)])) =>
              Len(results[b]) = Len(events[b])

OutcomeFollowsEventsCreateWitness ==
    \E b \in Batches :
        /\ pc[b] = "publishReturn"
        /\ Len(results[b]) = 1
        /\ ~results[b][1].success
        /\ Len(calls[b]) = 3
        /\ calls[b][1].answer = Failed(IntercomError(409))
        /\ calls[b][2].answer = Failed(IntercomError(500))
        /\ outcome[b][1].success

\* C20: the contact calls of an event follow the upsert-on-conflict protocol:
\* contacts.create is the first call; contacts.search is issued only right after a
\* contacts.create that failed with status 409 or 422; contacts.update is issued
\* only right after a search that returned a match, for the first match, and only
\* when the event has a name or a phone that is not blank once trimmed; at most one
\* create, one search and one update are issued per event.
UpsertOnConflictProtocol ==
    \A b \in Batches :
        LET cs == calls[b] IN
        /\ cs # <<>> => cs[1].op = "contacts.create"
        /\ \A op \in {"contacts.create", "contacts.search", "contacts.update"} :
              Cardinality(OpsOf(cs, op)) <= 1
        /\ \A k \in OpsOf(cs, "contacts.search") :
              /\ k = 2
              /\ cs[1].answer.status = "failed"
              /\ cs[1].answer.error.class = "IntercomError"
              /\ cs[1].answer.error.statusCode \in {409, 422}
        /\ \A k \in OpsOf(cs, "contacts.update") :
              /\ k = 3
              /\ cs[2].op = "contacts.search"
              /\ cs[2].answer.status = "ok"
              /\ Len(cs[2].answer.data) >= 1
              /\ \/ Trim(current(b).name) \notin {Undefined, ""}
                 \/ Trim(current(b).phone_number) \notin {Undefined, ""}
              /\ \A c \in inflight[b] :
                    c.op = "contacts.update" =>
                        /\ c.args.contact_id = cs[2].answer.data[1].id
                        /\ "name" \in DOMAIN c.args => c.args.name = Trim(current(b).name)
                        /\ "phone" \in DOMAIN c.args =>
                              c.args.phone = Trim(current(b).phone_number)

UpsertOnConflictProtocolWitness ==
    \E b \in Batches :
        /\ pc[b] = "updateCall"
        /\ Len(calls[b]) = 3
        /\ calls[b][1].answer = Failed(IntercomError(422))
        /\ \E c \in inflight[b] :
              /\ c.op = "contacts.update"
              /\ c.args.contact_id = "c1"
              /\ DOMAIN c.args = {"contact_id", "phone"}

\* C15: metadata entries whose value is undefined, null or the empty string are
\* not transmitted: the metadata of the payload of events.create holds exactly the
\* entries of event.metadata with another value, unchanged, and the payload has no
\* metadata field when there is no such entry.
MetadataOnlyNonEmpty ==
    \A b \in Batches :
        \A c \in inflight[b] :
            c.op = "events.create" =>
                LET meta == events[b][c.ev].metadata
                    kept == {k \in DOMAIN meta : meta[k] \notin {Undefined, Null, ""}}
                IN  /\ c.args.event_name = events[b][c.ev].event_name
                    /\ c.args.created_at = events[b][c.ev].created_at
                    /\ c.args.email = events[b][c.ev].email
                    /\ IF kept = {}
                       THEN DOMAIN c.args = {"event_name", "created_at", "email"}
                       ELSE /\ DOMAIN c.args = {"event_name", "created_at", "email", "metadata"}
                            /\ DOMAIN c.args.metadata = kept
                            /\ \A k \in kept : c.args.metadata[k] = meta[k]

MetadataOnlyNonEmptyWitness ==
    \E b \in Batches :
        \E c \in inflight[b] :
            /\ c.op = "events.create"
            /\ events[b][c.ev].metadata =
                   [ event_name |-> "Launch", event_date |-> Null, ticket_type |-> "",
                     presenter |-> Undefined ]
            /\ c.args.metadata = [ event_name |-> "Launch" ]

\* the calls of the running publishEvent are in order: contacts.create first, the
\* other contact calls next, events.create last, each issued once the one before
\* it was answered
CallsInOrder(b) ==
    LET cs == calls[b] IN
    /\ \A k \in 1..Len(cs) : cs[k].answer = Pending => k = Len(cs)
    /\ \A k \in OpsOf(cs, "events.create") :
          /\ k = Len(cs)
          /\ k >= 2
          /\ cs[1].op = "contacts.create"
          /\ \A j \in 1..(k - 1) : cs[j].op # "events.create" /\ cs[j].answer # Pending
    /\ inflight[b] # {} <=> (cs # <<>> /\ cs[Len(cs)].answer = Pending)

\* C21: within a publishEvent the contact resolution of the event ends first, then
\* the settle delay elapses, then events.create is issued: it is never issued while
\* a contact call of the event is unanswered nor before its contacts.create was
\* answered, and exactly one events.create has been issued for every event that
\* publishEvent was called for.
PublishStepsOrdered ==
    \A b \in Batches :
        /\ CallsInOrder(b)
        /\ pc[b] = "settle" => inflight[b] = {} /\ OpsOf(calls[b], "events.create") = {}
        /\ pc[b] = "eventCall" => Cardinality(OpsOf(calls[b], "events.create")) = 1
        /\ pc[b] \in {"publishReturn", "raised"} =>
              Cardinality(OpsOf(calls[b], "events.create")) = 1

\* C22: when an exception escapes the loop while event k is handled, the batch ends
\* early: no call is issued for the events after k, the stream carries start, the
\* progress messages of the events before k, then error with a message; complete is
\* never sent and the results array is in no terminal message.
EscapedExceptionEndsBatch ==
    \A b \in Batches :
        /\ pc[b] = "raised" => exc[b] # NoError /\ inflight[b] = {}
        /\ (pc[b] = "done" /\ exc[b] # NoError) =>
              LET q == msgs[b]
                  k == idx[b] + 1
              IN  /\ k <= Len(events[b])
                  /\ Len(results[b]) = k - 1
                  /\ inflight[b] = {}
                  /\ closed[b]
                  /\ Len(q) = k + 1
                  /\ q[1].type = "start"
                  /\ \A n \in 2..k : q[n].type = "progress" /\ q[n].index = n - 1
                  /\ q[k + 1].type = "error"
                  /\ q[k + 1].error # ""
                  /\ DOMAIN q[k + 1] = {"type", "error"}
                  /\ \A n \in 1..Len(q) : q[n].type # "complete"

EscapedExceptionEndsBatchWitness ==
    \E b \in Batches :
        /\ pc[b] = "done"
        /\ exc[b] # NoError
        /\ Len(events[b]) = 2
        /\ msgs[b] = << startMessage(events[b], attendees[b]), errorMessageOf(exc[b]) >>
        /\ results[b] = <<>>

(***************************************************************************)
(* C23: uploads served at the same time are independent.  However the    *)
(* steps of the two uploads interleave, each upload's events, remote       *)
(* calls, outcomes, counters and messages are those of its own request and *)
(* of the answers to its own calls, and every call carries the credential  *)
(* selected by that upload's testMode.                                     *)
(***************************************************************************)
OwnWork(b) ==
    /\ Streaming(b) =>
          /\ events[b] = DerivedEvents(req[b])
          /\ attendees[b] = ExtractAttendees(req[b]).attendees
          /\ msgs[b][1] = startMessage(events[b], attendees[b])
    /\ \A c \in inflight[b] :
          /\ c.client.token = env[TokenName(req[b].testMode)]
          /\ c.client.token # Undefined
          /\ c.ev = idx[b] + 1
          /\ c.op \in {"contacts.create", "events.create"} =>
                c.args.email = events[b][c.ev].email
          /\ c.op = "contacts.search" => c.args.value = events[b][c.ev].email
    /\ \A k \in 1..Len(outcome[b]) :
          /\ outcome[b][k].email = current(b).email
          /\ calls[b] # <<>> /\ calls[b][Len(calls[b])].op = "events.create" =>
                outcome[b][k] = publishResult(current(b), calls[b][Len(calls[b])].answer)
    /\ Len(results[b]) <= Len(events[b])
    /\ \A k \in 1..Len(results[b]) :
          /\ results[b][k].email = events[b][k].email
          /\ results[b][k].eventType = eventType(events[b][k])
    /\ successful[b] = Cardinality({k \in 1..Len(results[b]) : results[b][k].success})
    /\ failed[b] = Len(results[b]) - successful[b]
    /\ LET ps == ProgressOf(msgs[b]) IN
          /\ Len(ps) = Len(results[b])
          /\ \A k \in 1..Len(ps) :
                ps[k].result = results[b][k] /\ ps[k].total = Len(events[b])
    /\ \A n \in 1..Len(msgs[b]) :
          msgs[b][n].type = "complete" =>
              /\ msgs[b][n].results = results[b]
              /\ msgs[b][n].totalProcessed = Len(attendees[b])

ConcurrentBatchesIndependent == \A b \in Batches : OwnWork(b)

\* both uploads are streaming in different modes, each with a call in flight
ConcurrentBatchesIndependentWitness ==
    /\ req["A"].testMode # req["B"].testMode
    /\ inflight["A"] # {} /\ inflight["B"] # {}
    /\ Len(results["A"]) = 1
    /\ \A c \in inflight["A"] : c.op = "events.create"
    /\ \A c \in inflight["B"] : c.op = "contacts.update"

(***************************************************************************)
(* C24: publishEvents returns the full array of outcomes, and for the same *)
(* events and the same remote answers that array is the sequence of        *)
(* outcomes publishEventsWithProgress passes to onProgress, the remote     *)
(* calls being issued in the same order.                                   *)
(***************************************************************************)
IsPrefix(s, t) == Len(s) <= Len(t) /\ SubSeq(t, 1, Len(s)) = s

PassedToOnProgress(q) == [k \in 1..Len(ProgressOf(q)) |-> ProgressOf(q)[k].result]

\* run B issues the calls of run A in the order of run A
SameCallOrder ==
    /\ calls["A"] # <<>> =>
          /\ Len(calls["B"]) <= Len(calls["A"])
          /\ \A k \in 1..Len(calls["B"]) : calls["B"][k].op = calls["A"][k].op
    /\ (pc["B"] = ArrayPc(pc["A"]) /\ idx["B"] = idx["A"]) => Sync

SameOutcomes ==
    /\ IsPrefix(results["B"], PassedToOnProgress(msgs["A"]))
    /\ pc["B"] \in {"returned", "rejected"} =>
          results["B"] = PassedToOnProgress(msgs["A"])

ArrayVariantEquivalent ==
    /\ pc["B"] # "rejected"
    /\ pc["B"] = "returned" => Len(results["B"]) = Len(events["B"])
    /\ SameOutcomes
    /\ SameCallOrder

(***************************************************************************)
(* C25: the counts of a batch agree.  start.totalEvents is the number of   *)
(* derived events and start.totalProcessed the number of valid attendees;  *)
(* in complete, successful + failed = Len(results) = start.totalEvents,    *)
(* totalProcessed is that of start, and results is the sequence of the     *)
(* outcomes of the progress messages sent before it, in their order.       *)
(***************************************************************************)
AggregateCountsConsistent ==
    \A b \in Batches :
        Streaming(b) =>
            LET start == msgs[b][1] IN
            /\ start.type = "start"
            /\ start.totalEvents = Len(events[b])
            /\ start.totalProcessed = Cardinality(ValidRows(req[b]))
            /\ \A n \in 2..Len(msgs[b]) :
                  msgs[b][n].type = "complete" =>
                      /\ msgs[b][n].successful + msgs[b][n].failed =
                            Len(msgs[b][n].results)
                      /\ Len(msgs[b][n].results) = start.totalEvents
                      /\ msgs[b][n].totalProcessed = start.totalProcessed
                      /\ msgs[b][n].results =
                            PassedToOnProgress(SubSeq(msgs[b], 1, n - 1))

\* one attendee with two events, one published and one failed, has completed
AggregateCountsConsistentWitness ==
    \E b \in Batches :
        /\ pc[b] = "done"
        /\ msgs[b][1].totalEvents = 2 /\ msgs[b][1].totalProcessed = 1
        /\ msgs[b][Len(msgs[b])].type = "complete"
        /\ msgs[b][Len(msgs[b])].successful = 1
        /\ msgs[b][Len(msgs[b])].failed = 1

(***************************************************************************)
(* C26: a row without a valid e-mail address (empty after trimming, or     *)
(* without "@") is rejected on its own.  It gives no attendee, no event    *)
(* and no remote call, and adds the warning "Row <i+2>: Missing or invalid *)
(* email address" for its 0-based index i; the valid rows go on to be      *)
(* published; the warnings are delivered in complete.errors, which is left *)
(* out when there is none; the batch is rejected for its e-mail addresses  *)
(* only when no valid attendee remains.                                    *)
(***************************************************************************)
\* the j-th element of a set of row numbers, in increasing order
NthOf(S, j) == CHOOSE k \in S : Cardinality({i \in S : i < k}) = j - 1

\* the warnings of the rows without a valid e-mail address: row k is index k - 1
WarningsOf(r) ==
    [j \in 1..Cardinality(InvalidRows(r)) |->
        [row |-> (NthOf(InvalidRows(r), j) - 1) + 2,
         text |-> "Missing or invalid email address"]]

SaysJoined == {"TRUE", "1", "Y", " Joined ", " YES "}

\* the rows of a request that give an attended-event, in row order
JoinedRowsOf(r) ==
    IF Falsy(r.mapping.hasJoinedEvent)
    THEN <<>>
    ELSE SelectSeq(r.data, LAMBDA row : row.Joined \in SaysJoined)

HasJoinedEventParsed ==
    \A b \in Batches :
        LET r == req[b] IN
        /\ (Started(b) /\ r.data # <<>>) =>
              (Streaming(b) <=> JoinedRowsOf(r) # <<>>)
        /\ Streaming(b) =>
              /\ Len(attendees[b]) = Len(r.data)
              /\ \A k \in 1..Len(attendees[b]) :
                    attendees[b][k].hasJoinedEvent =
                        IF Falsy(r.mapping.hasJoinedEvent)
                        THEN <<>>
                        ELSE <<r.data[k].Joined \in SaysJoined>>
              /\ \A k \in 1..Len(attendees[b]) :
                    Classified(b)[k].hasAttendance = (r.data[k].Joined \in SaysJoined)
              /\ Len(events[b]) = Len(JoinedRowsOf(r))
              /\ \A k \in 1..Len(events[b]) : events[b][k].event_name = "attended-event"

\* a row that says " YES " beside a row that says "no": one attended-event
HasJoinedEventParsedWitness ==
    \E b \in Batches :
        /\ Streaming(b)
        /\ Len(req[b].data) = 2
        /\ req[b].data[1].Joined = "no" /\ req[b].data[2].Joined = " YES "
        /\ attendees[b][1].hasJoinedEvent = <<FALSE>>
        /\ attendees[b][2].hasJoinedEvent = <<TRUE>>
        /\ Len(events[b]) = 1

(***************************************************************************)
(* C28: when an approval_status column is mapped, a row whose approval     *)
(* status, trimmed and lower-cased, is invited is left out silently before *)
(* its e-mail address is looked at.  It gives no attendee, no event, no    *)
(* remote call and no warning, even with an invalid e-mail address, and is *)
(* not counted in totalProcessed; the rows of any other approval status    *)
(* are processed as usual.                                                 *)
(***************************************************************************)
\* the approval cells that read invited once trimmed and lower-cased
SaysInvited == {" Invited ", "invited"}

\* the rows POST goes on with, and among them those with and without an address
KeptRows(r) ==
    { k \in 1..Len(r.data) :
        Falsy(r.mapping.approval_status) \/ r.data[k].Approval \notin SaysInvited }

KeptWithAddress(r) == { k \in KeptRows(r) : EmailIsValid(RowEmail(r, k)) }

KeptWithoutAddress(r) == KeptRows(r) \ KeptWithAddress(r)

KeptWarnings(r) ==
    [j \in 1..Cardinality(KeptWithoutAddress(r)) |->
        [row |-> NthOf(KeptWithoutAddress(r), j) + 1,
         text |-> "Missing or invalid email address"]]

InvitedRowsExcluded ==
    \A b \in Batches :
        LET r == req[b] IN
        /\ (Started(b) /\ WellFormed(r)) =>
              /\ KeptWithAddress(r) = {} <=>
                    /\ response[b].status = 400
                    /\ response[b].body.error = "No valid attendees found in CSV"
              /\ KeptWithAddress(r) = {} => response[b].body.errors = KeptWarnings(r)
        /\ Streaming(b) =>
              /\ msgs[b][1].totalProcessed = Cardinality(KeptWithAddress(r))
              /\ Len(attendees[b]) = Cardinality(KeptWithAddress(r))
              /\ \A j \in 1..Len(attendees[b]) :
                    attendees[b][j].email = RowEmail(r, NthOf(KeptWithAddress(r), j))
              /\ errors[b] = KeptWarnings(r)
              /\ \A k \in 1..Len(events[b]) :
                    \E j \in KeptWithAddress(r) : events[b][k].email = RowEmail(r, j)
              /\ \A c \in inflight[b] :
                    /\ c.op \in {"contacts.create", "events.create"} =>
                          \E j \in KeptWithAddress(r) : c.args.email = RowEmail(r, j)
                    /\ c.op = "contacts.search" =>
                          \E j \in KeptWithAddress(r) : c.args.value = RowEmail(r, j)
              /\ \A n \in 1..Len(msgs[b]) :
                    msgs[b][n].type = "complete" =>
                        /\ msgs[b][n].totalProcessed = Cardinality(KeptWithAddress(r))
                        /\ "errors" \in DOMAIN msgs[b][n] <=> KeptWithoutAddress(r) # {}

\* an invited row without an address beside an approved row: one attendee,
\* no warning
InvitedRowsExcludedWitness ==
    \E b \in Batches :
        /\ pc[b] = "done"
        /\ req[b].mapping = MapFull
        /\ req[b].data = <<RowFay, RowAnn>>
        /\ msgs[b][1].totalProcessed = 1
        /\ Len(results[b]) = 1
        /\ msgs[b][Len(msgs[b])].type = "complete"
        /\ "errors" \notin DOMAIN msgs[b][Len(msgs[b])]

(***************************************************************************)
(* C29: the page never stays stuck in processing.  Once every upload that  *)
(* was started has failed, has delivered its last message or has ended,    *)
(* uploading is false and the step is not processing; a read of the stream *)
(* that the page waits for always has a message or the end of the stream   *)
(* to give; the step becomes results only by reading a complete message;   *)
(* and every failure of an upload (a response that is not OK, a body that  *)
(* cannot be read, a rejected fetch or read, an error message) sets the    *)
(* error, the step mapping and uploading false.                            *)
(***************************************************************************)
\* the step from now to next is a failure of upload b
UploadFails(b) ==
    \/ handler[b].pc = "fetch" /\ handler'[b].pc = "idle"
    \/ /\ handler[b].pc = "read"
       /\ handler'[b] # handler[b]
       /\ handler[b].read < Len(msgs[b])
       /\ \/ handler'[b].pc = "idle"
          \/ msgs[b][handler[b].read + 1].type = "error"
    \/ handler[b].pc # "idle" /\ handler'[b].pc = "idle" /\ ui' # ui

\* the step from now to next is the reading of a complete message of upload b
ReadsComplete(b) ==
    /\ handler[b].pc = "read"
    /\ handler'[b] # handler[b]
    /\ handler'[b].pc # "idle"
    /\ handler[b].read < Len(msgs[b])
    /\ msgs[b][handler[b].read + 1].type = "complete"

ClientNeverStuck ==
    /\ []((\A b \in Batches : handler[b].pc \in {"idle", "drained"}) =>
              ~ui.uploading /\ ui.currentStep # "processing")
    /\ [](\A b \in Batches :
              handler[b].pc = "read" /\ Written(b) /\ handler[b].read = Len(msgs[b])
                  => closed[b])
    /\ [][ /\ ui.currentStep # "results" /\ ui'.currentStep = "results" =>
                  \E b \in Batches : ReadsComplete(b)
           /\ \A b \in Batches :
                  UploadFails(b) =>
                      /\ ui'.error # <<>>
                      /\ ui'.currentStep = "mapping"
                      /\ ~ui'.uploading ]_vars

\* the read of a stream was rejected and no upload is under way: the page shows
\* the error in the mapping step
ClientNeverStuckWitness ==
    /\ \A b \in Batches : handler[b].pc = "idle"
    /\ ui.error = <<"network error">>
    /\ ui.currentStep = "mapping"
    /\ ~ui.uploading

(***************************************************************************)
(* C30: "Run in Production" is offered only in the results step of a run   *)
(* that was submitted in test mode and completed with at least one         *)
(* successful event; it always submits the file, the mapping and the event *)
(* settings of that run with testMode false; and the results of a          *)
(* production run never offer it again, wasTestMode being false after it.  *)
(***************************************************************************)
\* the form data of the run whose results are shown, with testMode false
ProductionForm == [ui.results[1].form EXCEPT !.testMode = FALSE]

RunInProductionSameUpload ==
    /\ [](RunInProductionOffered =>
              /\ ui.currentStep = "results"
              /\ ui.results[1].form.testMode
              /\ ui.results[1].successful >= 1)
    /\ [](RunInProductionOffered =>
              /\ ui.file # <<>>
              /\ ~Falsy(ui.mapping.email)
              /\ formData(FALSE) = ProductionForm)
    /\ [][\A b \in Batches :
              /\ handler[b].pc = "idle" /\ handler'[b].name = "handleRunInProduction"
                    => req'[b] = ProductionForm
              /\ ReadsComplete(b) /\ handler[b].name = "handleRunInProduction"
                    => ~ui'.wasTestMode]_vars

====
